---------------------------- MODULE Spec2Model ----------------------------
(***************************************************************************)
(* Verification model of the NFL player stats scraper:                     *)
(*   - NFLStatsScraper.extract_table_data   (src/src/scraper.py)           *)
(*   - NFLStatsParser.clean_data / validate_data / _convert_to_numeric     *)
(*                                          (src/src/parser.py)            *)
(*   - validate_csv                         (src/src/validate.py)          *)
(* Text is modelled as a sequence of one-character strings so that         *)
(* trimming, whitespace collapsing, character removal and number parsing   *)
(* are computed, character by character, as the code computes them.        *)
(***************************************************************************)
EXTENDS Integers, Sequences, FiniteSets, TLC

VARIABLES
    html,       \* the markup document handed to extract_table_data
    extracted,  \* what extract_table_data returned or raised
    raw,        \* the DataFrame first handed to clean_data
    df,         \* the current DataFrame
    cleans,     \* number of clean_data passes applied to df
    gate,       \* what validate_data returned or raised, "none" before the call
    file,       \* the file at the path handed to validate_csv
    vpc,        \* validate_csv: "start", "rows" (in the row loop) or "done"
    reader,     \* validate_csv: the rows the csv reader has not yielded yet
    expected_columns,   \* validate_csv: len(header)
    row_num,    \* validate_csv: number of the row the loop reads next
    errors,     \* validate_csv: the accumulated error list
    report,     \* validate_csv: the returned (is_valid, errors)
    disk,       \* the files below base_dir: path -> content
    disk0,      \* the files below base_dir before the first convert_files call
    cpc,        \* convert_files: "idle", "loop" (in the file loop) or "returned"
    conv_format,    \* convert_files: its target_format argument
    source_files,   \* convert_files: the enumerated files, in enumeration order
    ci,         \* convert_files: index of the file the loop takes next
    results,    \* convert_files: the report {'success': [...], 'errors': [...]}
    before,     \* the files below base_dir when the current call began
    history,    \* target format and report of every returned convert_files call
    f_position, \* fetch_stats: its position argument
    f_year,     \* fetch_stats: its year argument
    max_retries,    \* fetch_stats: its max_retries argument
    fpc,        \* fetch_stats: "idle", "start", "loop" (in the while loop) or "done"
    retry_count,    \* fetch_stats: the failed attempts so far
    trace,      \* fetch_stats: the GET requests and the sleeps made, in order
    fetched,    \* fetch_stats: what it returned or raised
    positions,  \* scrape_and_save_all: the positions to process, in order
    season,     \* scrape_and_save_all: its year argument
    output_format,  \* scrape_and_save_all: 'csv' or 'json'
    bpc,        \* scrape_and_save_all: "idle", "loop", "fetching" or "returned"
    bi,         \* scrape_and_save_all: index of the position the loop takes next
    filepaths,  \* scrape_and_save_all: the mapping position -> file path it returns
    log,        \* what became of every position processed so far, in order
    self_output_format, \* NFLStatsWriter: self.output_format
    constructed,    \* NFLStatsWriter: the output_format given to __init__
    calls,      \* NFLStatsWriter: method and outcome of every call made, in order
    mpc,        \* main: "idle", "scraping", "validating" or "exited"
    items,      \* main: results.items(), the saved positions in insertion order
    mi,         \* main: index of the item the validation loop takes next
    all_valid,  \* main: its all_valid flag
    exit_status \* main: the argument of sys.exit, -1 before the exit

extractVars == <<html, extracted>>
cleanVars == <<raw, df, cleans, gate>>
csvVars == <<file, vpc, reader, expected_columns, row_num, errors, report>>
convVars == <<disk, disk0, cpc, conv_format, source_files, ci, results, before, history>>
fetchVars == <<f_position, f_year, max_retries, fpc, retry_count, trace, fetched>>
batchVars == <<positions, season, output_format, bpc, bi, filepaths, log>>
writerVars == <<self_output_format, constructed, calls>>
mainVars == <<mpc, items, mi, all_valid, exit_status>>
vars == <<html, extracted, raw, df, cleans, gate,
          file, vpc, reader, expected_columns, row_num, errors, report,
          disk, disk0, cpc, conv_format, source_files, ci, results, before, history,
          f_position, f_year, max_retries, fpc, retry_count, trace, fetched,
          positions, season, output_format, bpc, bi, filepaths, log,
          self_output_format, constructed, calls,
          mpc, items, mi, all_valid, exit_status>>

(***************************************************************************)
(* Bounds of the model.                                                    *)
(***************************************************************************)
MaxTh == 4        \* header cells in the second header row
MaxRows == 1      \* body rows of the stats table
MaxCells == 3     \* cells of one body row
MaxCols == 3      \* columns of a raw DataFrame
MaxDfRows == 1    \* rows of a raw DataFrame
MaxCleans == 2    \* clean_data passes over one DataFrame
MaxLen == 4       \* characters of an enumerated cell string
MaxFileLen == 6   \* characters of an enumerated CSV file
MaxTableRows == 2 \* rows of a persisted table
MaxCalls == 2     \* convert_files calls in one behaviour
MaxRetries == 3   \* largest max_retries handed to fetch_stats
MaxPositions == 2 \* positions in an explicit list handed to scrape_and_save_all
MaxWriterCalls == 3   \* calls made on one NFLStatsWriter

(***************************************************************************)
(* Generic helpers on sequences.                                           *)
(***************************************************************************)
SeqsUpTo(S, n) == UNION {[1..k -> S] : k \in 0..n}

Drop(s, n) == IF Len(s) <= n THEN <<>> ELSE SubSeq(s, n + 1, Len(s))

(***************************************************************************)
(* str.strip(), str.strip(chars), str.split(), ' '.join(...)               *)
(***************************************************************************)
WS == {" ", "\n"}

RECURSIVE LStripChars(_, _)
LStripChars(s, cs) ==
    IF s # <<>> /\ Head(s) \in cs THEN LStripChars(Tail(s), cs) ELSE s

RECURSIVE RStripChars(_, _)
RStripChars(s, cs) ==
    IF s # <<>> /\ s[Len(s)] \in cs
        THEN RStripChars(SubSeq(s, 1, Len(s) - 1), cs)
        ELSE s

StripChars(s, cs) == RStripChars(LStripChars(s, cs), cs)

Strip(s) == StripChars(s, WS)

\* str.split() with no argument: the maximal runs of non-whitespace
RECURSIVE SplitFrom(_, _, _)
SplitFrom(s, cur, acc) ==
    IF s = <<>>
        THEN IF cur = <<>> THEN acc ELSE Append(acc, cur)
        ELSE IF Head(s) \in WS
            THEN SplitFrom(Tail(s), <<>>,
                           IF cur = <<>> THEN acc ELSE Append(acc, cur))
            ELSE SplitFrom(Tail(s), Append(cur, Head(s)), acc)

Split(s) == SplitFrom(s, <<>>, <<>>)

RECURSIVE Join(_, _)
Join(sep, words) ==
    IF words = <<>> THEN <<>>
    ELSE IF Len(words) = 1 THEN words[1]
    ELSE words[1] \o sep \o Join(sep, Tail(words))

(***************************************************************************)
(* The markup document, as the tree BeautifulSoup hands to the extractor.  *)
(*   tag   : [present, text]   an optional nested element (<small>, <a>)   *)
(*   th    : [own, small]      own text and the optional nested <small>    *)
(*   td    : [own, class, a, small]                                        *)
(*   table : [id, hasThead, thead, hasTbody, tbody]                        *)
(***************************************************************************)
NoTag == [present |-> FALSE, text |-> <<>>]
Tag(t) == [present |-> TRUE, text |-> t]

ThText(th) == th.own \o th.small.text
TdText(td) == td.own \o td.a.text \o td.small.text

Rank == <<"R", "a", "n", "k">>
Player == <<"P", "l", "a", "y", "e", "r">>
Team == <<"T", "e", "a", "m">>

T_TomBrady == <<"T", "o", "m", " ", "B", "r", "a", "d", "y">>
T_YDS == <<"Y", "D", "S">>
T_Stats == <<"S", "t", "a", "t", "s">>
T_4000 == <<"4", "0", "0", "0">>

(***************************************************************************)
(* Header cells and body cells the documents are built from.               *)
(***************************************************************************)
\* first cell of the second header row
ThRankPool == {[own |-> Rank, small |-> NoTag]}

\* second cell of the second header row
ThPlayerPool ==
    {[own |-> Player, small |-> Tag(Team)],
     [own |-> Player, small |-> NoTag]}

\* the cells after the first two
ThStatPool ==
    {[own |-> T_Stats, small |-> Tag(T_YDS)],
     [own |-> <<>>, small |-> Tag(<<" ", "Y", "\n", " ", "D", " ">>)],
     [own |-> <<" ", "T", " ", "D", "\n">>, small |-> NoTag]}

ThAt(i) == IF i = 1 THEN ThRankPool ELSE IF i = 2 THEN ThPlayerPool ELSE ThStatPool

\* the second header row: k cells, k in 0..MaxTh
HeaderRows2 ==
    UNION {{r \in [1..k -> ThRankPool \cup ThPlayerPool \cup ThStatPool] :
                \A i \in 1..k : r[i] \in ThAt(i)} : k \in 0..MaxTh}

CategoryRow == <<[own |-> <<"C", "1">>, small |-> NoTag],
                 [own |-> <<"C", "2">>, small |-> NoTag]>>

\* the <tr> rows of <thead>: none, one, two or three rows
Theads ==
    {<<>>, <<CategoryRow>>}
    \cup {<<CategoryRow, r>> : r \in HeaderRows2}
    \cup {<<CategoryRow, r, CategoryRow>> : r \in HeaderRows2}

PlainTd(t) == [own |-> t, class |-> {}, a |-> NoTag, small |-> NoTag]

TdRankPool == {PlainTd(<<"1">>), PlainTd(<<" ", "2", "\n">>)}

TdPlayerPool ==
    {[own |-> <<"\n", " ">>, class |-> {"player-label"},
      a |-> Tag(T_TomBrady), small |-> Tag(<<"(", "T", "B", ")">>)],
     [own |-> <<>>, class |-> {"player-label", "bold"},
      a |-> NoTag, small |-> Tag(<<" ", "(", "T", "B", ")", " ">>)],
     [own |-> <<"x">>, class |-> {"player-label"},
      a |-> Tag(<<" ", "T", "o", "m", " ">>), small |-> NoTag],
     [own |-> <<>>, class |-> {"bold"},
      a |-> Tag(T_TomBrady), small |-> Tag(<<"(", "T", "B", ")">>)]}

TdStatPool == {PlainTd(T_4000), PlainTd(<<" ", "6", "5", ".", "2", "%", " ">>)}

TdAt(i) == IF i = 1 THEN TdRankPool ELSE IF i = 2 THEN TdPlayerPool ELSE TdStatPool

\* one body row: k cells, k in 0..MaxCells
BodyRows ==
    UNION {{r \in [1..k -> TdRankPool \cup TdPlayerPool \cup TdStatPool] :
                \A i \in 1..k : r[i] \in TdAt(i)} : k \in 0..MaxCells}

Tbodies == SeqsUpTo(BodyRows, MaxRows)

\* the header and the body of the sample page of the tests, and broken ones
SampleTheads ==
    {<<CategoryRow, <<[own |-> Rank, small |-> NoTag],
                      [own |-> Player, small |-> Tag(Team)],
                      [own |-> T_Stats, small |-> Tag(T_YDS)]>> >>,
     <<CategoryRow>>}

SampleTbodies ==
    {<< <<PlainTd(<<"1">>),
          [own |-> <<"\n", " ">>, class |-> {"player-label"},
           a |-> Tag(T_TomBrady), small |-> Tag(<<"(", "T", "B", ")">>)],
          PlainTd(T_4000)>> >>,
     << <<PlainTd(<<"1">>)>> >>}

Table(hasThead, h, hasTbody, b) ==
    [id |-> "data", hasThead |-> hasThead, thead |-> h, hasTbody |-> hasTbody, tbody |-> b]

\* stats tables: every header over the sample bodies, every body over the
\* sample headers, each also without its <thead> or its <tbody>
DataTables ==
    {Table(TRUE, h, TRUE, b) : h \in Theads, b \in SampleTbodies}
    \cup {Table(TRUE, h, FALSE, <<>>) : h \in Theads}
    \cup {Table(TRUE, h, TRUE, b) : h \in SampleTheads, b \in Tbodies}
    \cup {Table(FALSE, <<>>, TRUE, b) : b \in Tbodies}

\* a well-formed table that is not the stats table
OtherTable ==
    [id |-> "other", hasThead |-> TRUE,
     thead |-> <<CategoryRow, <<[own |-> Rank, small |-> NoTag],
                              [own |-> Player, small |-> NoTag],
                              [own |-> T_Stats, small |-> Tag(T_YDS)]>>>>,
     hasTbody |-> TRUE,
     tbody |-> <<<<PlainTd(<<"1">>), PlainTd(<<"x">>), PlainTd(T_4000)>>>>]

\* a second table of id 'data', after the stats table
SecondDataTable == [OtherTable EXCEPT !.id = "data"]

\* a document is the sequence of its <table> elements, in document order
Documents ==
    {<<>>, <<OtherTable>>, <<OtherTable, OtherTable>>}
    \cup {<<d>> : d \in DataTables}
    \cup {<<OtherTable, d>> : d \in DataTables}
    \cup {<<d, SecondDataTable>> : d \in DataTables}

(***************************************************************************)
(* NFLStatsScraper.extract_table_data                                      *)
(***************************************************************************)
\* a lookup that forgets the id filter: the first table of the document
find_table_any_id(doc) == IF Len(doc) > 0 THEN 1 ELSE 0

\* soup.find('table', {'id': 'data'}): index of the first match, 0 for None
find_table(doc) ==
    IF \E i \in 1..Len(doc) : doc[i].id = "data"
        THEN CHOOSE i \in 1..Len(doc) :
                 /\ doc[i].id = "data"
                 /\ \A j \in 1..(i - 1) : doc[j].id # "data"
        ELSE 0

\* a header entry that always takes the full cell text
header_text_full(th) == Strip(ThText(th))

\* the header entry of one <th> of the second header row
header_text(th) ==
    IF th.small.present
        THEN Join(<<" ">>, Split(Strip(th.small.text)))
        ELSE Strip(ThText(th))

\* cells of the second header row that produce a header entry
header_cells(header_row) == Drop(header_row, 2)

extract_headers(table) ==
    LET seed == <<Rank, Player, Team>> IN
    IF Len(table.thead) >= 2
        THEN LET ths == header_cells(table.thead[2]) IN
             seed \o [i \in 1..Len(ths) |-> header_text(ths[i])]
        ELSE seed

\* player and team with the team's parentheses left in place
player_team_parens(player_cell) ==
    IF "player-label" \in player_cell.class
        THEN << IF player_cell.a.present THEN Strip(player_cell.a.text) ELSE <<>>,
                IF player_cell.small.present
                    THEN Strip(player_cell.small.text)
                    ELSE <<>> >>
        ELSE << <<>>, <<>> >>

\* player and team of the second body cell
player_team(player_cell) ==
    IF "player-label" \in player_cell.class
        THEN << IF player_cell.a.present THEN Strip(player_cell.a.text) ELSE <<>>,
                IF player_cell.small.present
                    THEN StripChars(Strip(player_cell.small.text), {"(", ")"})
                    ELSE <<>> >>
        ELSE << <<>>, <<>> >>

extract_row(cells) ==
    LET stats == Drop(cells, 2) IN
    <<Strip(TdText(cells[1]))>>
        \o player_team(cells[2])
        \o [i \in 1..Len(stats) |-> Strip(TdText(stats[i]))]

extract_rows(table) ==
    IF table.hasTbody
        THEN [r \in 1..Len(table.tbody) |-> extract_row(table.tbody[r])]
        ELSE <<>>

Raised(err) == [status |-> err, headers |-> <<>>, data |-> <<>>]

NotRun == [status |-> "none", headers |-> <<>>, data |-> <<>>]

extract_table_data(doc) ==
    LET t == find_table(doc) IN
    IF t = 0 THEN Raised("ValueError")
    ELSE IF ~doc[t].hasThead THEN Raised("AttributeError")
    ELSE IF doc[t].hasTbody /\ \E r \in 1..Len(doc[t].tbody) : Len(doc[t].tbody[r]) < 2
        THEN Raised("IndexError")
    ELSE [status |-> "ok",
          headers |-> extract_headers(doc[t]),
          data |-> extract_rows(doc[t])]

(***************************************************************************)
(* DataFrames.  A cell is a string, a number or the missing marker (NaN).  *)
(* A number m * 10^-e is kept normalised (no trailing zero in the          *)
(* fraction), so that equal values are equal cells.  A column has a dtype: *)
(* "object" (strings, as built from extracted rows) or "numeric".          *)
(***************************************************************************)
Str(s) == [kind |-> "str", s |-> s, m |-> 0, e |-> 0]
NaN == [kind |-> "nan", s |-> <<>>, m |-> 0, e |-> 0]

RECURSIVE Normalise(_, _)
Normalise(m, e) ==
    IF e > 0 /\ m % 10 = 0 THEN Normalise(m \div 10, e - 1) ELSE <<m, e>>

Num(m, e) ==
    [kind |-> "num", s |-> <<>>, m |-> Normalise(m, e)[1], e |-> Normalise(m, e)[2]]

Pos == <<"P", "o", "s">>
YACON == <<"Y", "A", "C", "O", "N">>
YACON_Rushing == YACON \o <<" ", "(", "R", "u", "s", "h", "i", "n", "g", ")">>
YACON_Receiving == YACON \o <<" ", "(", "R", "e", "c", "e", "i", "v", "i", "n", "g", ")">>

Column(d, j) == [r \in 1..Len(d.rows) |-> d.rows[r][j]]

\* indices of the columns named name, in column order
Occurrences(columns, name) == {i \in 1..Len(columns) : columns[i] = name}

(***************************************************************************)
(* pd.to_numeric(series, errors='coerce') on one string: optional          *)
(* surrounding whitespace, an optional sign, digits with at most one       *)
(* decimal point and at least one digit; anything else is NaN.  (The       *)
(* enumerated strings hold no exponent and no 'inf'/'nan' spelling.)       *)
(***************************************************************************)
DigitChars == <<"0", "1", "2", "3", "4", "5", "6", "7", "8", "9">>
Digits == {DigitChars[i] : i \in 1..10}
DigitVal(c) == (CHOOSE i \in 1..10 : DigitChars[i] = c) - 1

RECURSIVE DigitsValue(_, _)
DigitsValue(ds, acc) ==
    IF ds = <<>> THEN acc ELSE DigitsValue(Tail(ds), 10 * acc + DigitVal(Head(ds)))

AllDigits(ds) == \A k \in 1..Len(ds) : ds[k] \in Digits

RECURSIVE Pow10(_)
Pow10(n) == IF n = 0 THEN 1 ELSE 10 * Pow10(n - 1)

to_numeric(s) ==
    LET t == Strip(s)
        signed == t # <<>> /\ t[1] \in {"-", "+"}
        body == IF signed THEN Tail(t) ELSE t
        dots == {k \in 1..Len(body) : body[k] = "."}
        dot == IF dots = {} THEN 0 ELSE CHOOSE k \in dots : \A l \in dots : k <= l
        ip == IF dot = 0 THEN body ELSE SubSeq(body, 1, dot - 1)
        fp == IF dot = 0 THEN <<>> ELSE SubSeq(body, dot + 1, Len(body))
        mag == DigitsValue(ip \o fp, 0)
    IN  IF AllDigits(ip) /\ AllDigits(fp) /\ Len(ip) + Len(fp) > 0
            THEN Num(IF signed /\ t[1] = "-" THEN 0 - mag ELSE mag, Len(fp))
            ELSE NaN

(***************************************************************************)
(* NFLStatsParser._convert_to_numeric on a Series (one column).            *)
(***************************************************************************)
\* a removal that forgets the thousands separator
remove_percent_only(s) == SelectSeq(s, LAMBDA c : c # "%")

\* x.replace('%', '').replace(',', '')
remove_percent_comma(s) == SelectSeq(s, LAMBDA c : c \notin {"%", ","})

convert_cell(cell) == to_numeric(remove_percent_comma(cell.s))

\* the values and the dtype of the returned Series
_convert_to_numeric(series, dtype) ==
    IF dtype = "numeric"
        THEN [values |-> series, dtype |-> dtype]
        ELSE [values |-> [r \in 1..Len(series) |-> convert_cell(series[r])],
              dtype |-> "numeric"]

(***************************************************************************)
(* NFLStatsParser.clean_data                                               *)
(***************************************************************************)
\* rename whenever the name occurs at least twice
yacon_rule_at_least_two(columns) == Cardinality(Occurrences(columns, YACON)) >= 2

\* 'YACON' in df.columns and len(yacon_columns) == 2
yacon_rule_applies(columns) == Cardinality(Occurrences(columns, YACON)) = 2

\* rename the first and the last occurrence whenever the name occurs at all
rename_yacon_any(columns) ==
    LET occ == Occurrences(columns, YACON)
        first == CHOOSE i \in occ : \A k \in occ : i <= k
        last == CHOOSE i \in occ : \A k \in occ : k <= i
    IN  IF occ # {}
            THEN [i \in 1..Len(columns) |->
                    IF i = last THEN YACON_Receiving
                    ELSE IF i = first THEN YACON_Rushing
                    ELSE columns[i]]
            ELSE columns

rename_yacon(columns) ==
    LET occ == Occurrences(columns, YACON)
        first == CHOOSE i \in occ : \A k \in occ : i <= k
        second == CHOOSE i \in occ : i # first /\ \A k \in occ \ {first} : i <= k
    IN  IF yacon_rule_applies(columns)
            THEN [i \in 1..Len(columns) |->
                    IF i = first THEN YACON_Rushing
                    ELSE IF i = second THEN YACON_Receiving
                    ELSE columns[i]]
            ELSE columns

IdentityColumns == {Player, Team, Pos}

\* df[col] is a Series only when the name col is unique among the columns.  For
\* a repeated name df[col] is a DataFrame: pd.to_numeric raises TypeError on
\* it, both except branches end in 'return series', and the strings are
\* assigned back unchanged.
is_converted(columns, j) ==
    /\ columns[j] \notin IdentityColumns
    /\ Cardinality(Occurrences(columns, columns[j])) = 1

clean_data(d) ==
    LET cols == rename_yacon(d.columns)
        conv(j) == _convert_to_numeric(Column(d, j), d.dtypes[j])
    IN  [columns |-> cols,
         dtypes |-> [j \in 1..Len(cols) |->
                        IF is_converted(cols, j) THEN conv(j).dtype ELSE d.dtypes[j]],
         rows |-> [r \in 1..Len(d.rows) |->
                        [j \in 1..Len(cols) |->
                            IF is_converted(cols, j)
                                THEN conv(j).values[r]
                                ELSE d.rows[r][j]]]]

(***************************************************************************)
(* NFLStatsParser.validate_data                                            *)
(***************************************************************************)
\* df.empty: no row or no column
empty(d) == Len(d.rows) = 0 \/ Len(d.columns) = 0

required_cols == <<Player, Team>>

missing_cols(d) ==
    SelectSeq(required_cols, LAMBDA c : Occurrences(d.columns, c) = {})

\* a gate that looks for the required columns before the emptiness
validate_data_columns_first(d) ==
    IF missing_cols(d) # <<>>
        THEN [status |-> "ValueError", msg |-> "Missing required columns",
              missing |-> missing_cols(d)]
    ELSE IF empty(d)
        THEN [status |-> "ValueError", msg |-> "DataFrame is empty", missing |-> <<>>]
    ELSE [status |-> "True", msg |-> "", missing |-> <<>>]

validate_data(d) ==
    IF empty(d)
        THEN [status |-> "ValueError", msg |-> "DataFrame is empty", missing |-> <<>>]
    ELSE IF missing_cols(d) # <<>>
        THEN [status |-> "ValueError", msg |-> "Missing required columns",
              missing |-> missing_cols(d)]
    ELSE [status |-> "True", msg |-> "", missing |-> <<>>]

NoGate == [status |-> "none", msg |-> "", missing |-> <<>>]

(***************************************************************************)
(* Raw DataFrames: every column of dtype object, every cell a string.      *)
(***************************************************************************)
T_4comma000 == <<"4", ",", "0", "0", "0">>
T_65_2pct == <<"6", "5", ".", "2", "%">>
T_NA == <<"N", "/", "A">>

NamePool == {Player, Team, Pos, Rank, YACON, YACON_Rushing}

CellPool == {T_4comma000, T_65_2pct, T_NA}

\* rows of k cells: one string in every cell, or the strings in turn
RowPool(k) ==
    {[j \in 1..k |-> Str(s)] : s \in CellPool}
        \cup {[j \in 1..k |-> Str(<<T_4comma000, T_65_2pct, T_NA>>[(j % 3) + 1])]}

RawFrame(columns, rows) ==
    [columns |-> columns, dtypes |-> [j \in 1..Len(columns) |-> "object"], rows |-> rows]

\* 'Player', 'Team' and one stat column whose cell ranges over every string of
\* the alphabet and the named examples
CoerceAlphabet == {"4", "0", ".", ",", "%", "-", " ", "N"}

CoerceStrings ==
    SeqsUpTo(CoerceAlphabet, MaxLen)
        \cup {T_4comma000, T_65_2pct, T_NA, <<"3", "0", ".", "5">>, <<"+", "7">>}

T_Cmp == <<"C", "m", "p", "%">>

\* the identity cells of a coercion frame
T_TB == <<"T", "B">>

CoerceRow(s) == <<Str(T_TomBrady), Str(T_TB), Str(s)>>

CoerceFrames ==
    {RawFrame(<<Player, Team, T_Cmp>>, <<CoerceRow(s)>>) : s \in CoerceStrings}
        \cup {RawFrame(<<Player, Team, T_Cmp>>, <<CoerceRow(s), CoerceRow(t)>>) :
                 s \in {T_4comma000, T_65_2pct, T_NA, <<>>},
                 t \in {T_4comma000, T_65_2pct, T_NA, <<>>}}
        \cup {RawFrame(<<Player, Team, T_Cmp>>, <<>>)}

EmptyFrame == RawFrame(<<>>, <<>>)

(***************************************************************************)
(* validate_csv.  A file is [exists, readable, content]; content is the    *)
(* text of the file.  csv.reader yields one row per line: the fields       *)
(* between the commas, and [] for an empty line; a field that begins with  *)
(* a quote runs to its closing quote, a doubled quote inside it being one  *)
(* quote character.                                                        *)
(***************************************************************************)
\* The state of the reader: the field and the row being read, whether the
\* line has begun, the rows read so far, and quoted: "no" outside a quoted
\* field, "yes" inside one, "quote" after a quote character met inside one
\* (the end of the field, or the first half of a doubled quote).
ReaderState(field, row, started, quoted, rows) ==
    [field |-> field, row |-> row, started |-> started, quoted |-> quoted, rows |-> rows]

\* the reader takes the character c
csv_step(st, c) ==
    IF st.quoted = "yes"
        THEN IF c = "\""
                 THEN ReaderState(st.field, st.row, TRUE, "quote", st.rows)
                 ELSE ReaderState(Append(st.field, c), st.row, TRUE, "yes", st.rows)
    ELSE IF st.quoted = "quote" /\ c = "\""
        THEN ReaderState(Append(st.field, "\""), st.row, TRUE, "yes", st.rows)
    ELSE IF c = "\"" /\ st.field = <<>> /\ st.quoted = "no"
        THEN ReaderState(<<>>, st.row, TRUE, "yes", st.rows)
    ELSE IF c = "\n"
        THEN ReaderState(<<>>, <<>>, FALSE, "no",
                         Append(st.rows, IF st.started THEN Append(st.row, st.field)
                                         ELSE <<>>))
    ELSE IF c = ","
        THEN ReaderState(<<>>, Append(st.row, st.field), TRUE, "no", st.rows)
    ELSE ReaderState(Append(st.field, c), st.row, TRUE, st.quoted, st.rows)

\* the reader takes the characters s[lo] .. s[hi] in order: the first half of
\* them, then the second half from the state the first half leaves
RECURSIVE csv_reader(_, _, _, _)
csv_reader(s, lo, hi, st) ==
    IF lo > hi THEN st
    ELSE IF lo = hi THEN csv_step(st, s[lo])
    ELSE CHOOSE end \in {csv_reader(s, ((lo + hi) \div 2) + 1, hi, half) :
                            half \in {csv_reader(s, lo, (lo + hi) \div 2, st)}} : TRUE

\* the rows csv.reader yields for the text: a last line without line break
\* is a row too
csv_rows(content) ==
    CHOOSE rows \in {IF st.started THEN Append(st.rows, Append(st.row, st.field))
                     ELSE st.rows :
                        st \in {csv_reader(content, 1, Len(content),
                                    ReaderState(<<>>, <<>>, FALSE, "no", <<>>))}} : TRUE

\* os.path.getsize(file_path)
getsize(f) == Len(f.content)

Error(msg) == [msg |-> msg, row |-> 0, col |-> 0, actual |-> 0, expected |-> 0]

ColumnsError(row, actual, expected) ==
    [msg |-> "Row {row} has {actual} columns, expected {expected}",
     row |-> row, col |-> 0, actual |-> actual, expected |-> expected]

\* a report that numbers the columns as enumerate(row) does, from 0
EmptyValueError_zero_indexed(row, col) ==
    [msg |-> "Empty value found in row {row}, column {col}",
     row |-> row, col |-> col - 1, actual |-> 0, expected |-> 0]

\* f"Empty value found in row {row_num}, column {col_num + 1}"
EmptyValueError(row, col) ==
    [msg |-> "Empty value found in row {row}, column {col}",
     row |-> row, col |-> col, actual |-> 0, expected |-> 0]

\* a test that takes only an exhausted reader for a missing header
header_is_none(rows) == rows = <<>>

\* 'not header' for header = next(reader, None): None or the empty list
no_header(rows) == rows = <<>> \/ rows[1] = <<>>

\* a test that sees a repeated name only in neighbouring columns
has_adjacent_duplicates(header) ==
    \E i \in 1..(Len(header) - 1) : header[i] = header[i + 1]

\* len(header) != len(set(header))
has_duplicates(header) ==
    Len(header) # Cardinality({header[i] : i \in 1..Len(header)})

\* the errors one row adds: its length, then its blank cells in column order
row_errors(row, n, expected) ==
    (IF Len(row) # expected THEN <<ColumnsError(n, Len(row), expected)>> ELSE <<>>)
        \o [k \in 1..Cardinality({c \in 1..Len(row) : Strip(row[c]) = <<>>}) |->
                EmptyValueError(n,
                    CHOOSE c \in 1..Len(row) :
                        /\ Strip(row[c]) = <<>>
                        /\ Cardinality({b \in 1..c : Strip(row[b]) = <<>>}) = k)]

\* a scan that stops adding errors once one has been recorded
append_row_errors_until_first(errs, row, n, expected) ==
    IF errs # <<>> THEN errs ELSE errs \o row_errors(row, n, expected)

\* the body of the row loop: errors.append for the row, onto the list so far
append_row_errors(errs, row, n, expected) == errs \o row_errors(row, n, expected)

\* a numbering that counts the data rows from 1
row_number_from_one(i) == i

\* enumerate(reader, start=2): the number of the i-th row after the header
row_number(i) == i + 1

NoReport == [returned |-> FALSE, is_valid |-> FALSE, errors |-> <<>>]
Report(ok, errs) == [returned |-> TRUE, is_valid |-> ok, errors |-> errs]

\* 'for row_num, row in enumerate(reader, start=2)': the errors after the
\* rows from the i-th on were scanned
RECURSIVE scan_rows(_, _, _, _)
scan_rows(errs, rows, i, expected) ==
    IF i > Len(rows) THEN errs
    ELSE scan_rows(append_row_errors(errs, rows[i], row_number(i), expected),
                   rows, i + 1, expected)

\* the rows once the header is read: the duplicate check, then the row loop
check_rows(rows) ==
    CHOOSE r \in {Report(errs = <<>>, errs) :
                     errs \in {scan_rows(IF has_duplicates(rows[1])
                                             THEN <<Error("CSV contains duplicate column headers")>>
                                             ELSE <<>>,
                                         Tail(rows), 1, Len(rows[1]))}} : TRUE

\* validate_csv(file_path) as one call: the (is_valid, errors) it returns
validate_csv(f) ==
    IF ~f.exists THEN Report(FALSE, <<Error("File does not exist")>>)
    ELSE IF getsize(f) = 0 THEN Report(FALSE, <<Error("File is empty")>>)
    ELSE IF ~f.readable THEN Report(FALSE, <<Error("Unexpected error")>>)
    ELSE CHOOSE r \in {IF no_header(rows)
                           THEN Report(FALSE, <<Error("CSV file has no header row")>>)
                           ELSE check_rows(rows) : rows \in {csv_rows(f.content)}} : TRUE

FileAlphabet == {"a", "b", ",", "\n", " "}

Files ==
    {[exists |-> FALSE, readable |-> FALSE, content |-> <<>>]}
    \cup {[exists |-> TRUE, readable |-> TRUE, content |-> c] :
             c \in SeqsUpTo(FileAlphabet, MaxFileLen)}
    \cup {[exists |-> TRUE, readable |-> FALSE, content |-> c] : c \in {<<>>, <<"a">>}}

(***************************************************************************)
(* NFLStatsConverter.  A path is written relative to base_dir as           *)
(* [dirs, stem, ext].  The content of a file is a CSV table (a header and  *)
(* rows of cell texts), a JSON document (a list of records, each an        *)
(* ordered list of key/value pairs) or bytes that no reader accepts.       *)
(***************************************************************************)
PathOf(dirs, stem, ext) == [dirs |-> dirs, stem |-> stem, ext |-> ext]
NoPath == PathOf(<<>>, <<>>, "")

CsvContent(header, rows) ==
    [kind |-> "csv", header |-> header, rows |-> rows, records |-> <<>>]
JsonContent(records) ==
    [kind |-> "json", header |-> <<>>, rows |-> <<>>, records |-> records]
Garbage == [kind |-> "garbage", header |-> <<>>, rows |-> <<>>, records |-> <<>>]

\* the directory names int() accepts
YearNames == {"2022", "2023"}
is_int(name) == name \in YearNames

\* file_path.parent.name ('output' is the name of base_dir itself)
parent_name(path) == IF path.dirs = <<>> THEN "output" ELSE path.dirs[Len(path.dirs)]

\* the path lies below the directory dir
Under(path, dir) ==
    Len(path.dirs) >= Len(dir) /\ SubSeq(path.dirs, 1, Len(dir)) = dir

NoYear == "None"

\* the files _get_source_files collects below source_dir: .csv and .json
\* files, those of the year when a year is given
_get_source_files(files, source_dir, year) ==
    {path \in DOMAIN files :
        /\ Under(path, source_dir)
        /\ year # NoYear => (is_int(parent_name(path)) /\ parent_name(path) = year)
        /\ path.ext \in {"csv", "json"}}

\* base_dir / target_format / year, or base_dir / target_format / the
\* directories of the source, and the stem with the new suffix
_get_target_path(source_path, target_format) ==
    PathOf(IF is_int(parent_name(source_path))
               THEN <<target_format, parent_name(source_path)>>
               ELSE <<target_format>> \o source_path.dirs,
           source_path.stem, target_format)

Min(S) == CHOOSE i \in S : \A k \in S : i <= k
Max(S) == CHOOSE i \in S : \A k \in S : k <= i

\* the k-th smallest element of a set of numbers
Nth(S, k) == CHOOSE i \in S : Cardinality({q \in S : q <= i}) = k

Frame(columns, dtypes, rows) == [columns |-> columns, dtypes |-> dtypes, rows |-> rows]
ReadOk(d) == [status |-> "ok", df |-> d]
ReadRaises(err) == [status |-> err, df |-> Frame(<<>>, <<>>, <<>>)]

\* texts pd.read_csv takes for a missing value (some of its defaults)
NAStrings ==
    {<<>>, <<"N", "/", "A">>, <<"N", "A">>, <<"N", "a", "N">>, <<"n", "a", "n">>,
     <<"n", "u", "l", "l">>}

\* a repeated name gets the suffix .1, .2, ... in column order
mangle_dupe_cols(header) ==
    [j \in 1..Len(header) |->
        LET c == Cardinality({i \in 1..(j - 1) : header[i] = header[j]})
        IN  IF c = 0 THEN header[j] ELSE header[j] \o <<".", DigitChars[c + 1]>>]

\* pd.read_csv: a column whose present values are all numerals is numeric,
\* any other column keeps its texts; a missing value is NaN in both
read_csv(content) ==
    IF content.kind # "csv" \/ content.header = <<>>
        THEN ReadRaises("ParserError")
        ELSE LET n == Len(content.header)
                 isna(t) == t \in NAStrings
                 numeric(j) == \A r \in 1..Len(content.rows) :
                                  \/ isna(content.rows[r][j])
                                  \/ to_numeric(content.rows[r][j]).kind = "num"
             IN  ReadOk(Frame(mangle_dupe_cols(content.header),
                              [j \in 1..n |-> IF numeric(j) THEN "numeric" ELSE "object"],
                              [r \in 1..Len(content.rows) |->
                                  [j \in 1..n |->
                                      IF isna(content.rows[r][j]) THEN NaN
                                      ELSE IF numeric(j) THEN to_numeric(content.rows[r][j])
                                      ELSE Str(content.rows[r][j])]]))

\* one record of df.to_dict(orient='records'): a dict keeps the place of the
\* first occurrence of a key and the value of the last
record_of(columns, row) ==
    LET firsts == {j \in 1..Len(columns) : \A i \in 1..(j - 1) : columns[i] # columns[j]}
        last(name) == Max({j \in 1..Len(columns) : columns[j] = name})
    IN  [k \in 1..Cardinality(firsts) |->
            [key |-> columns[Nth(firsts, k)], value |-> row[last(columns[Nth(firsts, k)])]]]

to_dict_records(d) == [r \in 1..Len(d.rows) |-> record_of(d.columns, d.rows[r])]

\* json.dump(json_data, f, indent=4): NaN is written as the literal NaN
json_dump(data) == JsonContent(data)

\* json.load: the records in document order, keys in document order
json_load(content) ==
    IF content.kind = "json"
        THEN [status |-> "ok", data |-> content.records]
        ELSE [status |-> "JSONDecodeError", data |-> <<>>]

RECURSIVE AllKeys(_)
AllKeys(data) ==
    IF data = <<>> THEN <<>>
    ELSE [k \in 1..Len(Head(data)) |-> Head(data)[k].key] \o AllKeys(Tail(data))

\* pd.DataFrame(list of dicts): the columns are the keys in order of first
\* appearance; a record without the key has NaN
DataFrame(data) ==
    LET keys == AllKeys(data)
        firsts == {j \in 1..Len(keys) : \A i \in 1..(j - 1) : keys[i] # keys[j]}
        columns == [k \in 1..Cardinality(firsts) |-> keys[Nth(firsts, k)]]
        value(rec, name) ==
            IF \E k \in 1..Len(rec) : rec[k].key = name
                THEN rec[CHOOSE k \in 1..Len(rec) : rec[k].key = name].value
                ELSE NaN
        rows == [r \in 1..Len(data) |->
                    [j \in 1..Len(columns) |-> value(data[r], columns[j])]]
    IN  Frame(columns,
              [j \in 1..Len(columns) |->
                  IF \A r \in 1..Len(rows) : rows[r][j].kind # "str"
                      THEN "numeric" ELSE "object"],
              rows)

RECURSIVE FormatNat(_)
FormatNat(n) ==
    IF n < 10 THEN <<DigitChars[n + 1]>>
    ELSE FormatNat(n \div 10) \o <<DigitChars[(n % 10) + 1]>>

\* the last e digits of n
RECURSIVE FormatFrac(_, _)
FormatFrac(n, e) ==
    IF e = 0 THEN <<>> ELSE FormatFrac(n \div 10, e - 1) \o <<DigitChars[(n % 10) + 1]>>

\* a number as to_csv writes it: an int64 column without a decimal point, a
\* float64 column with one
format_number(cell, int64) ==
    LET a == IF cell.m < 0 THEN 0 - cell.m ELSE cell.m
    IN  (IF cell.m < 0 THEN <<"-">> ELSE <<>>)
            \o FormatNat(a \div Pow10(cell.e))
            \o (IF int64 THEN <<>>
                ELSE <<".">> \o (IF cell.e = 0 THEN <<"0">> ELSE FormatFrac(a, cell.e)))

\* df.to_csv(target_path, index=False): the column names, then the rows; a
\* string as it is, NaN as the empty text
to_csv(d) ==
    LET int64(j) == \A r \in 1..Len(d.rows) :
                       d.rows[r][j].kind = "num" /\ d.rows[r][j].e = 0
        text(cell, j) ==
            IF cell.kind = "str" THEN cell.s
            ELSE IF cell.kind = "nan" THEN <<>>
            ELSE format_number(cell, int64(j))
    IN  CsvContent(d.columns,
                   [r \in 1..Len(d.rows) |->
                       [j \in 1..Len(d.columns) |-> text(d.rows[r][j], j)]])

\* one field as the csv writer puts it (QUOTE_MINIMAL): quoted, with every
\* quote doubled, when it holds a comma, a quote or a line break
RECURSIVE double_quotes(_)
double_quotes(t) ==
    IF t = <<>> THEN <<>>
    ELSE (IF Head(t) = "\"" THEN <<"\"", "\"">> ELSE <<Head(t)>>) \o double_quotes(Tail(t))

\* a writer that never quotes a field
csv_field_unquoted(t) == t

csv_field(t) ==
    IF \E i \in 1..Len(t) : t[i] \in {",", "\"", "\n"}
        THEN <<"\"">> \o double_quotes(t) \o <<"\"">>
        ELSE t

csv_line(cells) == Join(<<",">>, [j \in 1..Len(cells) |-> csv_field(cells[j])]) \o <<"\n">>

RECURSIVE csv_lines(_)
csv_lines(rows) == IF rows = <<>> THEN <<>> ELSE csv_line(Head(rows)) \o csv_lines(Tail(rows))

\* the characters of the file df.to_csv leaves: the header line, then one
\* line per row (tables of two or more columns)
csv_text(content) == csv_line(content.header) \o csv_lines(content.rows)

\* the file at a path, as validate_csv finds it
file_at(files, path) ==
    IF path \notin DOMAIN files
        THEN [exists |-> FALSE, readable |-> FALSE, content |-> <<>>]
    ELSE IF files[path].kind # "csv"
        THEN [exists |-> TRUE, readable |-> FALSE, content |-> <<"?">>]
    ELSE [exists |-> TRUE, readable |-> TRUE, content |-> csv_text(files[path])]

\* a message names the source by source_path.name; the model keeps the whole
\* source path beside it
Message(msg, source_path, target_path) ==
    [msg |-> msg, name |-> <<source_path.stem, source_path.ext>>,
     source |-> source_path, target |-> target_path]

Write(files, path, content) ==
    [q \in DOMAIN files \cup {path} |-> IF q = path THEN content ELSE files[q]]

\* pd.read_csv(source_path), or json.load and pd.DataFrame(data), by the suffix
\* of the source
read_source(content, ext) ==
    IF ext = "csv" THEN read_csv(content)
    ELSE IF json_load(content).status = "ok"
        THEN ReadOk(DataFrame(json_load(content).data))
    ELSE ReadRaises(json_load(content).status)

\* the rest of convert_file once the source is read: work out the target
\* path, write the table in the target format
write_target(files, source_path, target_format, read) ==
    IF read.status = "ok"
        THEN [success |-> TRUE,
              files |-> Write(files, _get_target_path(source_path, target_format),
                              IF target_format = "json"
                                  THEN json_dump(to_dict_records(read.df))
                                  ELSE to_csv(read.df)),
              message |-> Message("Successfully converted", source_path,
                                  _get_target_path(source_path, target_format))]
        ELSE [success |-> FALSE,
              files |-> files,
              message |-> Message("Error converting", source_path, NoPath)]

\* convert_file: the source is read once, then written; any exception becomes
\* (False, message)
convert_file(files, source_path, target_format) ==
    CHOOSE done \in {write_target(files, source_path, target_format, read) :
                        read \in {read_source(files[source_path], source_path.ext)}} : TRUE

NoResults == [success |-> <<>>, errors |-> <<>>]

\* results['errors'].append(f"Error during conversion: {str(e)}")
BatchError(detail) ==
    [success |-> <<>>,
     errors |-> <<[msg |-> detail, name |-> <<<<>>, "">>,
                   source |-> NoPath, target |-> NoPath]>>]

\* a loop that gives up at the first file that fails
after_file_abort(i, n, success) == IF success THEN i + 1 ELSE n + 1

\* 'for source_path in source_files': the next file, whatever became of this one
after_file(i, n, success) == i + 1

\* every order in which rglob may yield the files of S
Orders(S) ==
    {f \in [1..Cardinality(S) -> S] :
        \A i \in 1..Cardinality(S) : \A k \in 1..Cardinality(S) : f[i] = f[k] => i = k}

\* the files a run of the scraper leaves below base_dir, and a stray one
T_qb_stats == <<"q", "b", "_", "s", "t", "a", "t", "s">>
P_qb_csv == PathOf(<<"csv", "2023">>, T_qb_stats, "csv")
P_qb_json == PathOf(<<"json", "2023">>, T_qb_stats, "json")
P_notes == PathOf(<<"misc">>, <<"n", "o", "t", "e", "s">>, "csv")

ConvColumns ==
    {<<Player, Team, T_Cmp>>,
     <<Player, Team, YACON, YACON>>,
     <<Player, Team, YACON, YACON, YACON>>}

TeamPool == {T_TB, <<>>}

\* the raw row of one player: a name, a team code, one text in every stat cell
ConvRow(team, s, k) == <<Str(T_TomBrady), Str(team)>> \o [j \in 1..k |-> Str(s)]

SampleFrame == clean_data(RawFrame(<<Player, Team, T_Cmp>>, <<CoerceRow(T_65_2pct)>>))

\* what save_data writes for a table: df.to_csv, or json.dump of the records
save_csv(d) == to_csv(d)
save_json(d) == json_dump(to_dict_records(d))

(***************************************************************************)
(* NFLStatsScraper.fetch_stats.  A position is a string of characters; a   *)
(* response text is the document it parses to, or an empty body.  The      *)
(* trace lists the session.get calls and the time.sleep calls in order.    *)
(***************************************************************************)
MIN_YEAR == 2013
MAX_YEAR == 2024

T_qb == <<"q", "b">>
T_rb == <<"r", "b">>
T_wr == <<"w", "r">>
T_te == <<"t", "e">>
T_kicker == <<"k", "i", "c", "k", "e", "r">>

VALID_POSITIONS == <<T_qb, T_rb, T_wr, T_te>>

UpperChars == <<"A", "B", "C", "D", "E", "F", "G", "H", "I", "J", "K", "L", "M",
                "N", "O", "P", "Q", "R", "S", "T", "U", "V", "W", "X", "Y", "Z">>
LowerChars == <<"a", "b", "c", "d", "e", "f", "g", "h", "i", "j", "k", "l", "m",
                "n", "o", "p", "q", "r", "s", "t", "u", "v", "w", "x", "y", "z">>

\* str.lower()
lower(s) ==
    [i \in 1..Len(s) |->
        IF \E k \in 1..26 : UpperChars[k] = s[i]
            THEN LowerChars[CHOOSE k \in 1..26 : UpperChars[k] = s[i]]
            ELSE s[i]]

\* a range check that leaves out both end years
validate_year_exclusive(y) == MIN_YEAR < y /\ y < MAX_YEAR

\* self.MIN_YEAR <= year <= self.MAX_YEAR
validate_year(y) == MIN_YEAR <= y /\ y <= MAX_YEAR

\* position.lower() in self.VALID_POSITIONS
validate_position(position) ==
    \E i \in 1..Len(VALID_POSITIONS) : VALID_POSITIONS[i] = lower(position)

\* a loop that allows one attempt more
may_attempt_once_more(count, limit) == count <= limit

\* while retry_count < max_retries
may_attempt(count, limit) == count < limit

\* a backoff without the added second
wait_time_without_offset(count) == 2 ^ count

\* wait_time = 2 ** retry_count + 1
wait_time(count) == 2 ^ count + 1

Get(ok) == [ev |-> "get", ok |-> ok, secs |-> 0]
Sleep(secs) == [ev |-> "sleep", ok |-> TRUE, secs |-> secs]

Response(doc) == [empty |-> FALSE, doc |-> doc]
EmptyBody == [empty |-> TRUE, doc |-> <<>>]

NotFetched == [status |-> "none", msg |-> "", text |-> EmptyBody]
ReturnsText(r) == [status |-> "text", msg |-> "", text |-> r]
ReturnsNone == [status |-> "None", msg |-> "", text |-> EmptyBody]
RaisesValueError(msg) == [status |-> "ValueError", msg |-> msg, text |-> EmptyBody]

\* pages the site may answer with: the sample page, one without the stats
\* table, one whose table has no body rows, one whose row is wider than its
\* header, and an empty body
SampleHeaderRows == <<CategoryRow, <<[own |-> Rank, small |-> NoTag],
                                     [own |-> Player, small |-> Tag(Team)],
                                     [own |-> T_Stats, small |-> Tag(T_YDS)]>> >>

SampleBodyRow ==
    <<PlainTd(<<"1">>),
      [own |-> <<"\n", " ">>, class |-> {"player-label"},
       a |-> Tag(T_TomBrady), small |-> Tag(<<"(", "T", "B", ")">>)],
      PlainTd(T_4000)>>

SamplePage == <<Table(TRUE, SampleHeaderRows, TRUE, <<SampleBodyRow>>)>>
NoTablePage == <<OtherTable>>
NoRowsPage == <<Table(TRUE, SampleHeaderRows, TRUE, <<>>)>>
WideRowPage ==
    <<Table(TRUE, SampleHeaderRows, TRUE, <<SampleBodyRow \o <<PlainTd(T_4000)>> >>)>>

\* a page whose only row names no player: the player cell holds no link
NoPlayerLinkPage ==
    <<Table(TRUE, SampleHeaderRows, TRUE,
            << <<PlainTd(<<"1">>),
                 [own |-> <<>>, class |-> {"player-label"},
                  a |-> NoTag, small |-> Tag(<<"(", "T", "B", ")">>)],
                 PlainTd(T_4000)>> >>)>>

ResponsePool ==
    {Response(SamplePage), Response(NoTablePage), Response(NoRowsPage),
     Response(WideRowPage), Response(NoPlayerLinkPage), EmptyBody}

PositionPool ==
    {T_qb, <<"Q", "B">>, <<"R", "b">>, T_wr, T_te, T_kicker, <<"q", "b", " ">>, <<>>}

(***************************************************************************)
(* NFLStatsParser.parse_table, NFLStatsWriter.save_data and the stages of  *)
(* scrape_and_save_all between the fetch and the save.                     *)
(***************************************************************************)
\* pd.DataFrame(data, columns=headers), then clean_data: the rows are padded
\* to the widest row, whose width must be the number of headers
parse_table(table_data) ==
    LET headers == table_data.headers
        data == table_data.data
    IN  IF data # <<>> /\ Max({Len(data[r]) : r \in 1..Len(data)}) # Len(headers)
            THEN ReadRaises("ValueError")
            ELSE ReadOk(clean_data(RawFrame(headers,
                     [r \in 1..Len(data) |->
                         [j \in 1..Len(headers) |->
                             IF j <= Len(data[r]) THEN Str(data[r][j]) ELSE NaN]])))

T__stats == <<"_", "s", "t", "a", "t", "s">>

\* base_dir / output_format / str(year) / f"{position}_stats.{extension}"
save_path(position, y, format) ==
    PathOf(<<format, ToString(y)>>, position \o T__stats, format)

\* the content save_data writes
save_data(d, format) == IF format = "json" THEN save_json(d) ELSE save_csv(d)

Stage(status, stage, d) == [status |-> status, stage |-> stage, df |-> d]

\* stages that hand the table to save_data without the validation gate
process_without_gate(doc) ==
    LET table_data == extract_table_data(doc)
        parsed == parse_table(table_data)
    IN  IF table_data.status # "ok" THEN Stage(table_data.status, "extract", EmptyFrame)
        ELSE IF parsed.status # "ok" THEN Stage(parsed.status, "parse", EmptyFrame)
        ELSE Stage("ok", "save", parsed.df)

\* extract_table_data, parse_table, validate_data: the table to save, or the
\* stage that raised
process(doc) ==
    LET table_data == extract_table_data(doc)
        parsed == parse_table(table_data)
    IN  IF table_data.status # "ok" THEN Stage(table_data.status, "extract", EmptyFrame)
        ELSE IF parsed.status # "ok" THEN Stage(parsed.status, "parse", EmptyFrame)
        ELSE IF validate_data(parsed.df).status # "True"
            THEN Stage(validate_data(parsed.df).status, "validate", EmptyFrame)
        ELSE Stage("ok", "save", parsed.df)

\* what the log keeps of one position
Processed(position, outcome, save_raised) ==
    [position |-> position, fetched |-> outcome, save_raised |-> save_raised]

\* the positions of an explicit list
BatchPositions == {T_qb, T_rb, T_kicker}

(***************************************************************************)
(* Values of the variables a specification does not use.                  *)
(***************************************************************************)
IdleClean ==
    /\ raw = EmptyFrame
    /\ df = EmptyFrame
    /\ cleans = 0
    /\ gate = NoGate

IdleExtract ==
    /\ html = <<>>
    /\ extracted = NotRun

IdleCsv ==
    /\ file = [exists |-> FALSE, readable |-> FALSE, content |-> <<>>]
    /\ vpc = "idle"
    /\ reader = <<>>
    /\ expected_columns = 0
    /\ row_num = 0
    /\ errors = <<>>
    /\ report = NoReport

IdleFetch ==
    /\ f_position = <<>>
    /\ f_year = 0
    /\ max_retries = 0
    /\ fpc = "idle"
    /\ retry_count = 0
    /\ trace = <<>>
    /\ fetched = NotFetched

IdleBatch ==
    /\ positions = <<>>
    /\ season = 0
    /\ output_format = "csv"
    /\ bpc = "idle"
    /\ bi = 0
    /\ filepaths = <<>>
    /\ log = <<>>

IdleWriter ==
    /\ self_output_format = "csv"
    /\ constructed = "csv"
    /\ calls = <<>>

IdleMain ==
    /\ mpc = "idle"
    /\ items = <<>>
    /\ mi = 0
    /\ all_valid = TRUE
    /\ exit_status = -1

IdleConvert ==
    /\ disk = <<>>
    /\ disk0 = <<>>
    /\ cpc = "idle"
    /\ conv_format = "csv"
    /\ source_files = <<>>
    /\ ci = 0
    /\ results = NoResults
    /\ before = <<>>
    /\ history = <<>>

(***************************************************************************)
(* The normaliser as a state machine: clean_data passes over one           *)
(* DataFrame, and the caller-invoked validation gate.                      *)
(***************************************************************************)
\* a raw frame: up to MaxCols column names, up to MaxDfRows rows of strings
InitClean ==
    /\ \E k \in 0..MaxCols : \E c \in [1..k -> NamePool] :
       \E rows \in SeqsUpTo(RowPool(k), MaxDfRows) :
          raw = RawFrame(c, rows)
    /\ df = raw
    /\ cleans = 0
    /\ gate = NoGate
    /\ IdleExtract
    /\ IdleCsv
    /\ IdleConvert
    /\ IdleFetch
    /\ IdleBatch
    /\ IdleWriter
    /\ IdleMain

InitCoerce ==
    /\ raw \in CoerceFrames
    /\ df = raw
    /\ cleans = 0
    /\ gate = NoGate
    /\ IdleExtract
    /\ IdleCsv
    /\ IdleConvert
    /\ IdleFetch
    /\ IdleBatch
    /\ IdleWriter
    /\ IdleMain

CleanData ==
    /\ cleans < MaxCleans
    /\ df' = clean_data(df)
    /\ cleans' = cleans + 1
    /\ UNCHANGED <<raw, gate, extractVars, csvVars, convVars, fetchVars, batchVars, writerVars, mainVars>>

ValidateDataReturns ==
    /\ gate = NoGate
    /\ validate_data(df).status = "True"
    /\ gate' = validate_data(df)
    /\ UNCHANGED <<raw, df, cleans, extractVars, csvVars, convVars, fetchVars, batchVars, writerVars, mainVars>>

ValidateDataRaises ==
    /\ gate = NoGate
    /\ validate_data(df).status # "True"
    /\ gate' = validate_data(df)
    /\ UNCHANGED <<raw, df, cleans, extractVars, csvVars, convVars, fetchVars, batchVars, writerVars, mainVars>>

NextClean == CleanData \/ ValidateDataReturns \/ ValidateDataRaises

SpecClean == InitClean /\ [][NextClean]_vars

SpecCoerce == InitCoerce /\ [][NextClean]_vars

(***************************************************************************)
(* validate_csv as a state machine: the precondition checks, then one     *)
(* step per row of the reader, then the return.                            *)
(***************************************************************************)
InitCsv ==
    /\ file \in Files
    /\ vpc = "start"
    /\ reader = <<>>
    /\ expected_columns = 0
    /\ row_num = 0
    /\ errors = <<>>
    /\ report = NoReport
    /\ IdleExtract
    /\ IdleClean
    /\ IdleConvert
    /\ IdleFetch
    /\ IdleBatch
    /\ IdleWriter
    /\ IdleMain

Return(ok, errs) ==
    /\ report' = Report(ok, errs)
    /\ vpc' = "done"

\* if not os.path.exists(file_path)
ValidateMissingFile ==
    /\ vpc = "start"
    /\ ~file.exists
    /\ Return(FALSE, <<Error("File does not exist")>>)
    /\ UNCHANGED <<file, reader, expected_columns, row_num, errors, extractVars, cleanVars, convVars, fetchVars, batchVars, writerVars, mainVars>>

\* if os.path.getsize(file_path) == 0
ValidateEmptyFile ==
    /\ vpc = "start"
    /\ file.exists
    /\ getsize(file) = 0
    /\ Return(FALSE, <<Error("File is empty")>>)
    /\ UNCHANGED <<file, reader, expected_columns, row_num, errors, extractVars, cleanVars, convVars, fetchVars, batchVars, writerVars, mainVars>>

\* open() raises: except Exception
ValidateUnreadable ==
    /\ vpc = "start"
    /\ file.exists
    /\ getsize(file) # 0
    /\ ~file.readable
    /\ Return(FALSE, <<Error("Unexpected error")>>)
    /\ UNCHANGED <<file, reader, expected_columns, row_num, errors, extractVars, cleanVars, convVars, fetchVars, batchVars, writerVars, mainVars>>

\* header = next(reader, None); if not header
ValidateNoHeader ==
    /\ vpc = "start"
    /\ file.exists
    /\ getsize(file) # 0
    /\ file.readable
    /\ no_header(csv_rows(file.content))
    /\ Return(FALSE, <<Error("CSV file has no header row")>>)
    /\ UNCHANGED <<file, reader, expected_columns, row_num, errors, extractVars, cleanVars, convVars, fetchVars, batchVars, writerVars, mainVars>>

\* the header is read, the duplicate check is made and the row loop is entered
ValidateReadHeader ==
    /\ vpc = "start"
    /\ file.exists
    /\ getsize(file) # 0
    /\ file.readable
    /\ ~no_header(csv_rows(file.content))
    /\ LET rows == csv_rows(file.content) IN
       /\ expected_columns' = Len(rows[1])
       /\ errors' = IF has_duplicates(rows[1])
                        THEN <<Error("CSV contains duplicate column headers")>>
                        ELSE <<>>
       /\ reader' = Tail(rows)
    /\ row_num' = row_number(1)
    /\ vpc' = "rows"
    /\ UNCHANGED <<file, report, extractVars, cleanVars, convVars, fetchVars, batchVars, writerVars, mainVars>>

\* one iteration of 'for row_num, row in enumerate(reader, start=2)'
ValidateRow ==
    /\ vpc = "rows"
    /\ reader # <<>>
    /\ errors' = append_row_errors(errors, Head(reader), row_num, expected_columns)
    /\ reader' = Tail(reader)
    /\ row_num' = row_num + 1
    /\ UNCHANGED <<file, vpc, expected_columns, report, extractVars, cleanVars, convVars, fetchVars, batchVars, writerVars, mainVars>>

\* the reader is exhausted: return (False, errors) or (True, [])
ValidateReturn ==
    /\ vpc = "rows"
    /\ reader = <<>>
    /\ IF errors # <<>> THEN Return(FALSE, errors) ELSE Return(TRUE, <<>>)
    /\ UNCHANGED <<file, reader, expected_columns, row_num, errors, extractVars, cleanVars, convVars, fetchVars, batchVars, writerVars, mainVars>>

NextCsv ==
    \/ ValidateMissingFile
    \/ ValidateEmptyFile
    \/ ValidateUnreadable
    \/ ValidateNoHeader
    \/ ValidateReadHeader
    \/ ValidateRow
    \/ ValidateReturn

SpecCsv == InitCsv /\ [][NextCsv]_vars

(***************************************************************************)
(* convert_files as a state machine: the enumeration of the source files,  *)
(* one step per enumerated file, then the return of the report.            *)
(***************************************************************************)
\* base_dir holds the CSV file of a cleaned table, with or without a JSON
\* file of the same position and an unreadable stray file; or one-row tables
\* and a readable stray file; or nothing at all
InitConvert ==
    /\ \/ \E columns \in ConvColumns : \E n \in 1..MaxTableRows :
          \E team \in TeamPool : \E stats \in [1..n -> CellPool] :
          \E json \in BOOLEAN : \E stray \in {"absent", "unreadable", "sample"} :
             LET rows == [r \in 1..n |-> ConvRow(team, stats[r], Len(columns) - 2)]
                 table == save_csv(clean_data(RawFrame(columns, rows)))
                 present == {P_qb_csv} \cup (IF json THEN {P_qb_json} ELSE {})
                                \cup (IF stray # "absent" THEN {P_notes} ELSE {})
             IN  /\ stray = "sample" => n = 1
                 /\ disk = [path \in present |->
                               IF path = P_qb_csv THEN table
                               ELSE IF path = P_qb_json THEN save_json(SampleFrame)
                               ELSE IF stray = "unreadable" THEN Garbage
                               ELSE save_csv(SampleFrame)]
       \/ disk = <<>>
    /\ disk0 = disk
    /\ cpc = "idle"
    /\ conv_format = "csv"
    /\ source_files = <<>>
    /\ ci = 0
    /\ results = NoResults
    /\ before = disk
    /\ history = <<>>
    /\ IdleExtract
    /\ IdleClean
    /\ IdleCsv
    /\ IdleFetch
    /\ IdleBatch
    /\ IdleWriter
    /\ IdleMain

\* the calls made: convert_files(target_format), path and year left at None
ConvertArgs == {"csv", "json"}

CanCall == cpc \in {"idle", "returned"} /\ Len(history) < MaxCalls

\* the sources the report counts as converted
Converted(r) == {r.success[k].source : k \in 1..Len(r.success)}

ReturnReport(format, r) ==
    /\ cpc' = "returned"
    /\ conv_format' = format
    /\ results' = r
    /\ source_files' = <<>>
    /\ ci' = 0
    /\ before' = disk
    /\ history' = Append(history, [target_format |-> format, converted |-> Converted(r)])

\* if not source_dir.exists(): raise FileNotFoundError
ConvertFilesMissingDir ==
    /\ CanCall
    /\ DOMAIN disk = {}
    /\ \E format \in ConvertArgs :
          ReturnReport(format,
              BatchError("Error during conversion: Source directory does not exist"))
    /\ UNCHANGED <<disk, disk0, extractVars, cleanVars, csvVars, fetchVars, batchVars, writerVars, mainVars>>

\* if not source_files: raise FileNotFoundError
ConvertFilesNoFiles ==
    /\ CanCall
    /\ _get_source_files(disk, <<>>, NoYear) = {}
    /\ \E format \in ConvertArgs :
          ReturnReport(format,
              BatchError("Error during conversion: No files found to convert"))
    /\ UNCHANGED <<disk, disk0, extractVars, cleanVars, csvVars, fetchVars, batchVars, writerVars, mainVars>>

\* the files are enumerated and the loop is entered
ConvertFilesBegin ==
    /\ CanCall
    /\ _get_source_files(disk, <<>>, NoYear) # {}
    /\ source_files' \in Orders(_get_source_files(disk, <<>>, NoYear))
    /\ conv_format' \in ConvertArgs
    /\ ci' = 1
    /\ results' = NoResults
    /\ before' = disk
    /\ cpc' = "loop"
    /\ UNCHANGED <<disk, disk0, history, extractVars, cleanVars, csvVars, fetchVars, batchVars, writerVars, mainVars>>

\* a file already in the target format: continue
ConvertSkip ==
    /\ cpc = "loop"
    /\ ci <= Len(source_files)
    /\ source_files[ci].ext = conv_format
    /\ ci' = ci + 1
    /\ UNCHANGED <<disk, disk0, cpc, conv_format, source_files, results, before, history,
                   extractVars, cleanVars, csvVars, fetchVars, batchVars, writerVars, mainVars>>

ConvertFileSucceeds ==
    /\ cpc = "loop"
    /\ ci <= Len(source_files)
    /\ source_files[ci].ext # conv_format
    /\ LET done == convert_file(disk, source_files[ci], conv_format) IN
       /\ done.success
       /\ disk' = done.files
       /\ results' = [results EXCEPT !.success = Append(@, done.message)]
    /\ ci' = after_file(ci, Len(source_files), TRUE)
    /\ UNCHANGED <<disk0, cpc, conv_format, source_files, before, history,
                   extractVars, cleanVars, csvVars, fetchVars, batchVars, writerVars, mainVars>>

ConvertFileFails ==
    /\ cpc = "loop"
    /\ ci <= Len(source_files)
    /\ source_files[ci].ext # conv_format
    /\ LET done == convert_file(disk, source_files[ci], conv_format) IN
       /\ ~done.success
       /\ disk' = done.files
       /\ results' = [results EXCEPT !.errors = Append(@, done.message)]
    /\ ci' = after_file(ci, Len(source_files), FALSE)
    /\ UNCHANGED <<disk0, cpc, conv_format, source_files, before, history,
                   extractVars, cleanVars, csvVars, fetchVars, batchVars, writerVars, mainVars>>

\* the loop is over: return results
ConvertFilesReturn ==
    /\ cpc = "loop"
    /\ ci > Len(source_files)
    /\ ReturnReport(conv_format, results)
    /\ UNCHANGED <<disk, disk0, extractVars, cleanVars, csvVars, fetchVars, batchVars, writerVars, mainVars>>

NextConvert ==
    \/ ConvertFilesMissingDir
    \/ ConvertFilesNoFiles
    \/ ConvertFilesBegin
    \/ ConvertSkip
    \/ ConvertFileSucceeds
    \/ ConvertFileFails
    \/ ConvertFilesReturn

SpecConvert == InitConvert /\ [][NextConvert]_vars

(***************************************************************************)
(* fetch_stats as a state machine: the two input checks, then one step     *)
(* per pass of the while loop (the GET request, and the sleep that follows *)
(* it), then the return.                                                   *)
(***************************************************************************)
InitFetch ==
    /\ f_position \in PositionPool
    /\ f_year \in (MIN_YEAR - 1)..(MAX_YEAR + 1)
    /\ max_retries \in 0..MaxRetries
    /\ fpc = "start"
    /\ retry_count = 0
    /\ trace = <<>>
    /\ fetched = NotFetched
    /\ IdleExtract
    /\ IdleClean
    /\ IdleCsv
    /\ IdleConvert
    /\ IdleBatch
    /\ IdleWriter
    /\ IdleMain

\* if not self.validate_year(year): raise ValueError
FetchRaisesYear ==
    /\ fpc = "start"
    /\ ~validate_year(f_year)
    /\ fetched' = RaisesValueError("Year must be between MIN_YEAR and MAX_YEAR")
    /\ fpc' = "done"
    /\ UNCHANGED <<f_position, f_year, max_retries, retry_count, trace,
                   extractVars, cleanVars, csvVars, convVars, batchVars, writerVars, mainVars>>

\* if not self.validate_position(position): raise ValueError
FetchRaisesPosition ==
    /\ fpc = "start"
    /\ validate_year(f_year)
    /\ ~validate_position(f_position)
    /\ fetched' = RaisesValueError("Position must be one of VALID_POSITIONS")
    /\ fpc' = "done"
    /\ UNCHANGED <<f_position, f_year, max_retries, retry_count, trace,
                   extractVars, cleanVars, csvVars, convVars, batchVars, writerVars, mainVars>>

\* url = self.get_url(position, year); retry_count = 0
FetchEnterLoop ==
    /\ fpc = "start"
    /\ validate_year(f_year)
    /\ validate_position(f_position)
    /\ retry_count' = 0
    /\ fpc' = "loop"
    /\ UNCHANGED <<f_position, f_year, max_retries, trace, fetched,
                   extractVars, cleanVars, csvVars, convVars, batchVars, writerVars, mainVars>>

\* the request succeeds: time.sleep(2); return response.text
FetchGetSucceeds ==
    /\ fpc = "loop"
    /\ may_attempt(retry_count, max_retries)
    /\ \E r \in ResponsePool : fetched' = ReturnsText(r)
    /\ trace' = trace \o <<Get(TRUE), Sleep(2)>>
    /\ fpc' = "done"
    /\ UNCHANGED <<f_position, f_year, max_retries, retry_count,
                   extractVars, cleanVars, csvVars, convVars, batchVars, writerVars, mainVars>>

\* requests.RequestException: count the failure and, if an attempt is left,
\* sleep before it
FetchGetFails ==
    /\ fpc = "loop"
    /\ may_attempt(retry_count, max_retries)
    /\ retry_count' = retry_count + 1
    /\ trace' = trace \o <<Get(FALSE)>>
                    \o (IF retry_count + 1 < max_retries
                            THEN <<Sleep(wait_time(retry_count + 1))>> ELSE <<>>)
    /\ UNCHANGED <<f_position, f_year, max_retries, fpc, fetched,
                   extractVars, cleanVars, csvVars, convVars, batchVars, writerVars, mainVars>>

\* the loop condition fails: return None
FetchReturnsNone ==
    /\ fpc = "loop"
    /\ ~may_attempt(retry_count, max_retries)
    /\ fetched' = ReturnsNone
    /\ fpc' = "done"
    /\ UNCHANGED <<f_position, f_year, max_retries, retry_count, trace,
                   extractVars, cleanVars, csvVars, convVars, batchVars, writerVars, mainVars>>

NextFetch ==
    \/ FetchRaisesYear
    \/ FetchRaisesPosition
    \/ FetchEnterLoop
    \/ FetchGetSucceeds
    \/ FetchGetFails
    \/ FetchReturnsNone

SpecFetch == InitFetch /\ [][NextFetch]_vars

\* every step of the call completes: a request ends by its 30-second timeout
\* and a sleep ends
SpecFetchLive == InitFetch /\ [][NextFetch]_vars /\ WF_vars(NextFetch)

(***************************************************************************)
(* scrape_and_save_all as a state machine: for each position the call of   *)
(* fetch_stats (the steps of the fetch machine, with the default           *)
(* max_retries), then the stages up to the save.                           *)
(***************************************************************************)
InitBatch ==
    /\ positions \in SeqsUpTo(BatchPositions, MaxPositions) \cup {VALID_POSITIONS}
    /\ season \in {MIN_YEAR - 1, MAX_YEAR - 1}
    /\ output_format \in {"csv", "json"}
    /\ bpc = "loop"
    /\ bi = 1
    /\ filepaths = <<>>
    /\ log = <<>>
    /\ IdleWriter
    /\ IdleMain
    /\ IdleFetch
    /\ IdleConvert
    /\ IdleExtract
    /\ IdleClean
    /\ IdleCsv

\* html = scraper.fetch_stats(position, year)
BatchCallsFetch ==
    /\ bpc = "loop"
    /\ bi <= Len(positions)
    /\ f_position' = positions[bi]
    /\ f_year' = season
    /\ max_retries' = 3
    /\ fpc' = "start"
    /\ retry_count' = 0
    /\ trace' = <<>>
    /\ fetched' = NotFetched
    /\ bpc' = "fetching"
    /\ UNCHANGED <<positions, season, output_format, bi, filepaths, log,
                   extractVars, cleanVars, csvVars, convVars, writerVars, mainVars>>

\* the position is done with: the fetch call is over, the loop goes on
NextPosition(save_raised) ==
    /\ bpc = "fetching"
    /\ fpc = "done"
    /\ log' = Append(log, Processed(positions[bi], fetched, save_raised))
    /\ bi' = bi + 1
    /\ bpc' = "loop"
    /\ f_position' = <<>>
    /\ f_year' = 0
    /\ max_retries' = 0
    /\ fpc' = "idle"
    /\ retry_count' = 0
    /\ trace' = <<>>
    /\ fetched' = NotFetched

\* if not html: continue
BatchFetchFailed ==
    /\ fetched.status = "None" \/ (fetched.status = "text" /\ fetched.text.empty)
    /\ NextPosition(FALSE)
    /\ UNCHANGED <<positions, season, output_format, filepaths,
                   extractVars, cleanVars, csvVars, convVars, writerVars, mainVars>>

\* except Exception: fetch_stats or a stage before the save raised
BatchStageRaises ==
    /\ \/ fetched.status = "ValueError"
       \/ /\ fetched.status = "text"
          /\ ~fetched.text.empty
          /\ process(fetched.text.doc).status # "ok"
    /\ NextPosition(FALSE)
    /\ UNCHANGED <<positions, season, output_format, filepaths,
                   extractVars, cleanVars, csvVars, convVars, writerVars, mainVars>>

\* except Exception: save_data raised (the directory or the file could not be
\* written); the file may have been opened and left unfinished
BatchSaveRaises ==
    /\ fetched.status = "text"
    /\ ~fetched.text.empty
    /\ process(fetched.text.doc).status = "ok"
    /\ NextPosition(TRUE)
    /\ \/ disk' = disk
       \/ disk' = Write(disk, save_path(positions[bi], season, output_format), Garbage)
    /\ UNCHANGED <<positions, season, output_format, filepaths,
                   disk0, cpc, conv_format, source_files, ci, results, before, history,
                   extractVars, cleanVars, csvVars, writerVars, mainVars>>

\* every stage succeeded: the file is written and the path recorded
BatchSaves ==
    /\ fetched.status = "text"
    /\ ~fetched.text.empty
    /\ process(fetched.text.doc).status = "ok"
    /\ NextPosition(FALSE)
    /\ disk' = Write(disk, save_path(positions[bi], season, output_format),
                     save_data(process(fetched.text.doc).df, output_format))
    /\ filepaths' = Write(filepaths, positions[bi],
                          save_path(positions[bi], season, output_format))
    /\ UNCHANGED <<positions, season, output_format,
                   disk0, cpc, conv_format, source_files, ci, results, before, history,
                   extractVars, cleanVars, csvVars, writerVars, mainVars>>

\* return results
BatchReturns ==
    /\ bpc = "loop"
    /\ bi > Len(positions)
    /\ bpc' = "returned"
    /\ UNCHANGED <<positions, season, output_format, bi, filepaths, log,
                   extractVars, cleanVars, csvVars, convVars, fetchVars, writerVars, mainVars>>

NextBatch ==
    \/ BatchCallsFetch
    \/ NextFetch
    \/ BatchFetchFailed
    \/ BatchStageRaises
    \/ BatchSaveRaises
    \/ BatchSaves
    \/ BatchReturns

SpecBatch == InitBatch /\ [][NextBatch]_vars

(***************************************************************************)
(* NFLStatsWriter: one writer, the calls of save_to_csv and save_data made *)
(* on it.  An argument is a value with its Python type.                    *)
(***************************************************************************)
Arg(type, value) == [type |-> type, value |-> value]
None == Arg("NoneType", <<>>)

\* the isinstance checks of save_data, in their order: the exception raised,
\* or "none"
type_check(d, position, y) ==
    IF position.type # "str" THEN "TypeError"
    ELSE IF y.type # "int" THEN "TypeError"
    ELSE IF d.type # "DataFrame" THEN "AttributeError"
    ELSE "none"

\* the file save_data writes under the format the writer holds at that moment
saved_files(files, format, d, position, y) ==
    Write(files, save_path(position.value, y.value, format), save_data(d.value, format))

Call(method, outcome) == [method |-> method, outcome |-> outcome]

\* the arguments the calls are made with, named by what is passed
DfArgs == {"DataFrame", "None"}
PositionArgs == {"qb", "rb", "None"}
YearArgs == {"2023", "'2023'"}

DfArg(a) == IF a = "DataFrame" THEN Arg("DataFrame", SampleFrame) ELSE None
PositionArg(a) ==
    IF a = "qb" THEN Arg("str", T_qb) ELSE IF a = "rb" THEN Arg("str", T_rb) ELSE None
YearArg(a) ==
    IF a = "2023" THEN Arg("int", MAX_YEAR - 1) ELSE Arg("str", <<"2", "0", "2", "3">>)

InitWriter ==
    /\ constructed \in {"csv", "json"}
    /\ self_output_format = constructed
    /\ calls = <<>>
    /\ IdleMain
    /\ IdleBatch
    /\ IdleFetch
    /\ IdleConvert
    /\ IdleExtract
    /\ IdleClean
    /\ IdleCsv

\* save_to_csv: output_format is set to 'csv', save_data returns, output_format
\* is set back
SaveToCsvReturns ==
    /\ Len(calls) < MaxWriterCalls
    /\ \E d \in DfArgs : \E position \in PositionArgs : \E y \in YearArgs :
          /\ type_check(DfArg(d), PositionArg(position), YearArg(y)) = "none"
          /\ disk' = saved_files(disk, "csv", DfArg(d), PositionArg(position), YearArg(y))
    /\ self_output_format' = self_output_format
    /\ calls' = Append(calls, Call("save_to_csv", "returned"))
    /\ UNCHANGED <<constructed, disk0, cpc, conv_format, source_files, ci, results,
                   before, history, extractVars, cleanVars, csvVars, fetchVars,
                   batchVars, mainVars>>

\* save_to_csv: output_format is set to 'csv', save_data raises (a type check,
\* or the file system), and the exception leaves save_to_csv at that line
SaveToCsvRaises ==
    /\ Len(calls) < MaxWriterCalls
    /\ \E d \in DfArgs : \E position \in PositionArgs : \E y \in YearArgs :
          calls' = Append(calls, Call("save_to_csv",
                       IF type_check(DfArg(d), PositionArg(position), YearArg(y)) = "none"
                           THEN "OSError"
                           ELSE type_check(DfArg(d), PositionArg(position), YearArg(y))))
    /\ self_output_format' = "csv"
    /\ UNCHANGED <<constructed, convVars, extractVars, cleanVars, csvVars, fetchVars,
                   batchVars, mainVars>>

\* save_data returns: the file is written in the format the writer holds
SaveDataReturns ==
    /\ Len(calls) < MaxWriterCalls
    /\ \E d \in DfArgs : \E position \in PositionArgs : \E y \in YearArgs :
          /\ type_check(DfArg(d), PositionArg(position), YearArg(y)) = "none"
          /\ disk' = saved_files(disk, self_output_format,
                                 DfArg(d), PositionArg(position), YearArg(y))
    /\ calls' = Append(calls, Call("save_data", "returned"))
    /\ UNCHANGED <<self_output_format, constructed, disk0, cpc, conv_format,
                   source_files, ci, results, before, history, extractVars, cleanVars,
                   csvVars, fetchVars, batchVars, mainVars>>

\* save_data raises
SaveDataRaises ==
    /\ Len(calls) < MaxWriterCalls
    /\ \E d \in DfArgs : \E position \in PositionArgs : \E y \in YearArgs :
          calls' = Append(calls, Call("save_data",
                       IF type_check(DfArg(d), PositionArg(position), YearArg(y)) = "none"
                           THEN "OSError"
                           ELSE type_check(DfArg(d), PositionArg(position), YearArg(y))))
    /\ UNCHANGED <<self_output_format, constructed, convVars, extractVars, cleanVars,
                   csvVars, fetchVars, batchVars, mainVars>>

NextWriter ==
    \/ SaveToCsvReturns
    \/ SaveToCsvRaises
    \/ SaveDataReturns
    \/ SaveDataRaises

SpecWriter == InitWriter /\ [][NextWriter]_vars

(***************************************************************************)
(* main in scraping mode: scrape_and_save_all for the default positions    *)
(* (the steps of the batch machine), the validation loop over the          *)
(* returned mapping, and the exit.  The mapping 'results' of main is       *)
(* filepaths, its output_format the one handed to scrape_and_save_all.     *)
(***************************************************************************)
\* results.items(): the positions of the mapping in insertion order
items_of(order, mapping) == SelectSeq(order, LAMBDA p : p \in DOMAIN mapping)

\* the years given on the command line
MainYears == {MIN_YEAR - 1, MAX_YEAR - 1}

InitMain ==
    /\ positions = VALID_POSITIONS
    /\ season \in MainYears
    /\ output_format \in {"csv", "json"}
    /\ bpc = "loop"
    /\ bi = 1
    /\ filepaths = <<>>
    /\ log = <<>>
    /\ mpc = "scraping"
    /\ items = <<>>
    /\ mi = 0
    /\ all_valid = TRUE
    /\ exit_status = -1
    /\ IdleWriter
    /\ IdleFetch
    /\ IdleConvert
    /\ IdleExtract
    /\ IdleClean
    /\ IdleCsv

\* scrape_and_save_all returned; if output_format == 'csv': the loop over
\* results.items() is entered
MainBeginsValidation ==
    /\ mpc = "scraping"
    /\ bpc = "returned"
    /\ output_format = "csv"
    /\ items' = items_of(positions, filepaths)
    /\ mi' = 1
    /\ all_valid' = TRUE
    /\ mpc' = "validating"
    /\ UNCHANGED <<exit_status, extractVars, cleanVars, csvVars, convVars, fetchVars,
                   batchVars, writerVars>>

\* is_valid, errors = validate_csv(filepath); if not is_valid: all_valid = False
MainValidatesFile ==
    /\ mpc = "validating"
    /\ mi <= Len(items)
    /\ all_valid' = (all_valid /\ validate_csv(file_at(disk, filepaths[items[mi]])).is_valid)
    /\ mi' = mi + 1
    /\ UNCHANGED <<mpc, items, exit_status, extractVars, cleanVars, csvVars, convVars,
                   fetchVars, batchVars, writerVars>>

\* sys.exit(0) if all_valid else sys.exit(1)
MainExitsCsv ==
    /\ mpc = "validating"
    /\ mi > Len(items)
    /\ exit_status' = IF all_valid THEN 0 ELSE 1
    /\ mpc' = "exited"
    /\ UNCHANGED <<items, mi, all_valid, extractVars, cleanVars, csvVars, convVars,
                   fetchVars, batchVars, writerVars>>

\* the JSON branch: nothing is validated, sys.exit(0)
MainExitsJson ==
    /\ mpc = "scraping"
    /\ bpc = "returned"
    /\ output_format # "csv"
    /\ exit_status' = 0
    /\ mpc' = "exited"
    /\ UNCHANGED <<items, mi, all_valid, extractVars, cleanVars, csvVars, convVars,
                   fetchVars, batchVars, writerVars>>

\* the steps of scrape_and_save_all and of its fetch_stats calls (the default
\* positions pass validate_position), then those of main
NextMain ==
    \/ BatchCallsFetch
    \/ FetchRaisesYear
    \/ FetchEnterLoop
    \/ FetchGetSucceeds
    \/ FetchGetFails
    \/ FetchReturnsNone
    \/ BatchFetchFailed
    \/ BatchStageRaises
    \/ BatchSaveRaises
    \/ BatchSaves
    \/ BatchReturns
    \/ MainBeginsValidation
    \/ MainValidatesFile
    \/ MainExitsCsv
    \/ MainExitsJson

SpecMain == InitMain /\ [][NextMain]_vars

(***************************************************************************)
(* One table through the pipeline of scrape_and_save_all and main:         *)
(* parse_table (clean_data), the validation gate, save_data as CSV,        *)
(* validate_csv on the saved file.                                         *)
(***************************************************************************)
T_SmithJr == <<"S", "m", "i", "t", "h", ",", " ", "J", "r">>

\* the columns of the extracted table
PipeColumns ==
    {<<Player, Team, T_Cmp>>,
     <<Player, Team, YACON, YACON>>,
     <<Player, Team, YACON, YACON, YACON>>,
     <<Player, T_Cmp>>}

PipePlayers == {T_TomBrady, T_SmithJr, <<>>}
PipeTeams == {T_TB, <<" ">>, <<>>}
PipeStats == {T_4000, T_NA}

\* one extracted row: a player, then a team when there is a Team column, then
\* one text in every stat cell
PipeRow(columns, player, team, s) ==
    [j \in 1..Len(columns) |->
        IF columns[j] = Player THEN Str(player)
        ELSE IF columns[j] = Team THEN Str(team)
        ELSE Str(s)]

PipeRows(columns) ==
    {PipeRow(columns, player, team, s) :
        player \in PipePlayers, team \in PipeTeams, s \in PipeStats}

InitPipeline ==
    /\ \E columns \in PipeColumns : \E n \in 1..MaxTableRows :
       \E rows \in [1..n -> PipeRows(columns)] :
          raw = RawFrame(columns, rows)
    /\ df = raw
    /\ cleans = 0
    /\ gate = NoGate
    /\ IdleCsv
    /\ IdleExtract
    /\ IdleConvert
    /\ IdleFetch
    /\ IdleBatch
    /\ IdleWriter
    /\ IdleMain

\* df = parser.parse_table(table_data): the frame is normalised
PipelineNormalises ==
    /\ cleans = 0
    /\ df' = clean_data(df)
    /\ cleans' = 1
    /\ UNCHANGED <<raw, gate, extractVars, csvVars, convVars, fetchVars, batchVars,
                   writerVars, mainVars>>

\* parser.validate_data(df) returns True
PipelineGatePasses ==
    /\ cleans = 1
    /\ gate = NoGate
    /\ validate_data(df).status = "True"
    /\ gate' = validate_data(df)
    /\ UNCHANGED <<raw, df, cleans, extractVars, csvVars, convVars, fetchVars, batchVars,
                   writerVars, mainVars>>

\* parser.validate_data(df) raises: nothing is saved
PipelineGateRaises ==
    /\ cleans = 1
    /\ gate = NoGate
    /\ validate_data(df).status # "True"
    /\ gate' = validate_data(df)
    /\ UNCHANGED <<raw, df, cleans, extractVars, csvVars, convVars, fetchVars, batchVars,
                   writerVars, mainVars>>

\* writer.save_data(df, position, year) with output_format 'csv'
PipelineSaves ==
    /\ gate.status = "True"
    /\ ~file.exists
    /\ file' = [exists |-> TRUE, readable |-> TRUE, content |-> csv_text(save_csv(df))]
    /\ UNCHANGED <<vpc, reader, expected_columns, row_num, errors, report,
                   extractVars, cleanVars, convVars, fetchVars, batchVars,
                   writerVars, mainVars>>

\* is_valid, errors = validate_csv(filepath)
PipelineValidates ==
    /\ file.exists
    /\ ~report.returned
    /\ report' = validate_csv(file)
    /\ vpc' = "done"
    /\ UNCHANGED <<file, reader, expected_columns, row_num, errors,
                   extractVars, cleanVars, convVars, fetchVars, batchVars,
                   writerVars, mainVars>>

NextPipeline ==
    \/ PipelineNormalises
    \/ PipelineGatePasses
    \/ PipelineGateRaises
    \/ PipelineSaves
    \/ PipelineValidates

SpecPipeline == InitPipeline /\ [][NextPipeline]_vars

(***************************************************************************)
(* The extractor as a state machine: one call on one document.             *)
(***************************************************************************)
InitExtract ==
    /\ html \in Documents
    /\ extracted = NotRun
    /\ IdleClean
    /\ IdleCsv
    /\ IdleConvert
    /\ IdleFetch
    /\ IdleBatch
    /\ IdleWriter
    /\ IdleMain

\* the call returns the headers and the rows
ExtractReturns ==
    /\ extracted = NotRun
    /\ extract_table_data(html).status = "ok"
    /\ extracted' = extract_table_data(html)
    /\ UNCHANGED <<html, cleanVars, csvVars, convVars, fetchVars, batchVars, writerVars, mainVars>>

\* the call raises (no stats table, no <thead>, a row with fewer than two cells)
ExtractRaises ==
    /\ extracted = NotRun
    /\ extract_table_data(html).status # "ok"
    /\ extracted' = extract_table_data(html)
    /\ UNCHANGED <<html, cleanVars, csvVars, convVars, fetchVars, batchVars, writerVars, mainVars>>

NextExtract == ExtractReturns \/ ExtractRaises

SpecExtract == InitExtract /\ [][NextExtract]_vars

(***************************************************************************)
(* Properties of the extractor.                                            *)
(***************************************************************************)
NoDataTable(doc) == \A i \in 1..Len(doc) : doc[i].id # "data"

\* the stats table of a document that has one
StatsTable(doc) ==
    doc[CHOOSE i \in 1..Len(doc) :
            doc[i].id = "data" /\ \A j \in 1..(i - 1) : doc[j].id # "data"]

\* out is src with the characters of cs removed from both ends, and only those
IsTrimOf(out, src, cs) ==
    /\ \E i \in 0..Len(src) : \E j \in i..Len(src) :
          /\ out = SubSeq(src, i + 1, j)
          /\ \A k \in 1..i : src[k] \in cs
          /\ \A k \in (j + 1)..Len(src) : src[k] \in cs
    /\ out = <<>> \/ (out[1] \notin cs /\ out[Len(out)] \notin cs)

\* out is src with every run of whitespace replaced by one space, none at the ends
IsCollapseOf(out, src) ==
    /\ SelectSeq(out, LAMBDA c : c \notin WS) = SelectSeq(src, LAMBDA c : c \notin WS)
    /\ \A k \in 1..Len(out) : out[k] \in WS =>
          /\ out[k] = " "
          /\ 1 < k /\ k < Len(out)
          /\ out[k - 1] \notin WS /\ out[k + 1] \notin WS
    /\ Len(SelectSeq(out, LAMBDA c : c \in WS)) + 1 = Len(Split(src)) \/ Split(src) = <<>>

\* C1: a document with no table of id 'data' makes extract_table_data raise
\* ValueError, and nothing of a result (no header, no row) is returned.
C1_NoTableRaisesValueError ==
    NoDataTable(html) =>
        /\ ~ENABLED ExtractReturns
        /\ extracted # NotRun =>
              /\ extracted.status = "ValueError"
              /\ extracted.headers = <<>>
              /\ extracted.data = <<>>

C1_Witness ==
    /\ NoDataTable(html)
    /\ Len(html) >= 1
    /\ extracted.status = "ValueError"

\* C2: for a table with a two-row header the returned headers are Rank, Player,
\* Team followed by one entry per cell of the second header row after its first
\* two cells, in document order: the nested small label with whitespace
\* collapsed when the cell has one, the cell's full trimmed text otherwise.
C2_HeaderSequence ==
    (extracted.status = "ok" /\ Len(StatsTable(html).thead) = 2) =>
        LET row2 == StatsTable(html).thead[2]
            n == IF Len(row2) > 2 THEN Len(row2) - 2 ELSE 0
            h == extracted.headers
        IN  /\ Len(h) = 3 + n
            /\ h[1] = <<"R", "a", "n", "k">>
            /\ h[2] = <<"P", "l", "a", "y", "e", "r">>
            /\ h[3] = <<"T", "e", "a", "m">>
            /\ \A i \in 1..n :
                  IF row2[i + 2].small.present
                      THEN IsCollapseOf(h[3 + i], row2[i + 2].small.text)
                      ELSE IsTrimOf(h[3 + i], ThText(row2[i + 2]), WS)

\* a two-row header whose second row has a small-label cell with inner
\* whitespace followed by a cell without a small label
C2_Witness ==
    /\ extracted.status = "ok"
    /\ Len(StatsTable(html).thead) = 2
    /\ Len(StatsTable(html).thead[2]) = 4
    /\ StatsTable(html).thead[2][3].small.present
    /\ ~StatsTable(html).thead[2][4].small.present
    /\ extracted.headers = <<Rank, Player, Team, <<"Y", " ", "D">>, <<"T", " ", "D">> >>

HasCell(d, kind) ==
    \E r \in 1..Len(d.rows) : \E j \in 1..Len(d.columns) : d.rows[r][j].kind = kind

\* C4: clean_data renames headers in one case only: 'YACON' occurring exactly
\* twice becomes 'YACON (Rushing)' then 'YACON (Receiving)'; every other header
\* and the column order are unchanged, and with one, three or more 'YACON' or
\* another repeated name no header is renamed.
C4_YaconRenameOnlyWhenTwice ==
    cleans >= 1 =>
        LET occ == {i \in 1..Len(raw.columns) : raw.columns[i] = <<"Y", "A", "C", "O", "N">>}
        IN  /\ Len(df.columns) = Len(raw.columns)
            /\ IF Cardinality(occ) = 2
                  THEN \A i \in 1..Len(raw.columns) :
                          df.columns[i] =
                              IF i = Min(occ)
                                  THEN <<"Y", "A", "C", "O", "N", " ",
                                         "(", "R", "u", "s", "h", "i", "n", "g", ")">>
                              ELSE IF i = Max(occ)
                                  THEN <<"Y", "A", "C", "O", "N", " ",
                                         "(", "R", "e", "c", "e", "i", "v", "i", "n", "g", ")">>
                              ELSE raw.columns[i]
                  ELSE df.columns = raw.columns

C4_Witness ==
    /\ cleans = 1
    /\ raw.columns = <<YACON, Player, YACON>>
    /\ df.columns = <<YACON_Rushing, Player, YACON_Receiving>>

\* the digits of ds read as a decimal numeral, last digit first
RECURSIVE Decimal(_)
Decimal(ds) ==
    IF ds = <<>> THEN 0
    ELSE DigitVal(ds[Len(ds)]) + 10 * Decimal(SubSeq(ds, 1, Len(ds) - 1))

\* cell is the number written by u: surrounding whitespace, an optional sign,
\* digits around at most one decimal point; or cell is missing when u writes none
Denotes(u, cell) ==
    LET core == SelectSeq(u, LAMBDA c : c \notin WS)
        unsigned == IF core # <<>> /\ core[1] \in {"-", "+"} THEN Tail(core) ELSE core
        digits == SelectSeq(unsigned, LAMBDA c : c # ".")
        points == Len(unsigned) - Len(digits)
        frac == IF points = 0 THEN 0
                ELSE Len(unsigned) - Min({k \in 1..Len(unsigned) : unsigned[k] = "."})
        wellFormed ==
            /\ \E i \in 0..Len(u) : \E j \in i..Len(u) :
                  /\ core = SubSeq(u, i + 1, j)
                  /\ \A k \in (1..i) \cup ((j + 1)..Len(u)) : u[k] \in WS
            /\ points <= 1
            /\ digits # <<>>
            /\ \A k \in 1..Len(digits) : digits[k] \in Digits
    IN  IF wellFormed
            THEN /\ cell.kind = "num"
                 /\ cell.e <= frac
                 /\ cell.m * Pow10(frac - cell.e) =
                        (IF core[1] = "-" THEN 0 - 1 ELSE 1) * Decimal(digits)
                 /\ cell.e = 0 \/ cell.m % 10 # 0
            ELSE cell.kind = "nan"

\* C5: coercing a non-identity cell removes every '%' and ',' and parses the
\* rest as a number; a cell that does not parse becomes the missing marker and
\* nothing is raised: '4,000' gives 4000, '65.2%' gives 65.2, 'N/A' and ''
\* give missing; the number of rows is unchanged.
C5_NumericCoercion ==
    cleans >= 1 =>
        /\ Len(df.rows) = Len(raw.rows)
        /\ df.columns = raw.columns
        /\ \A r \in 1..Len(raw.rows) :
              LET s == raw.rows[r][3].s
                  c == df.rows[r][3]
              IN  /\ Denotes(SelectSeq(s, LAMBDA x : x # "%" /\ x # ","), c)
                  /\ s = <<"4", ",", "0", "0", "0">> => c.kind = "num" /\ c.m = 4000 /\ c.e = 0
                  /\ s = <<"6", "5", ".", "2", "%">> => c.kind = "num" /\ c.m = 652 /\ c.e = 1
                  /\ s = <<"N", "/", "A">> => c.kind = "nan"
                  /\ s = <<>> => c.kind = "nan"

C5_Witness ==
    /\ cleans = 1
    /\ raw.rows = <<CoerceRow(T_4comma000), CoerceRow(T_NA)>>
    /\ df.rows = << <<Str(T_TomBrady), Str(T_TB), Num(4000, 0)>>,
                    <<Str(T_TomBrady), Str(T_TB), NaN>> >>

\* C6: normalisation is idempotent: a clean_data pass over an already cleaned
\* table leaves the column names, the dtypes and every cell (missing markers
\* included) as they were.
C6_CleanDataIdempotent ==
    [][(cleans >= 1 /\ cleans' = cleans + 1) =>
            /\ df'.columns = df.columns
            /\ df'.rows = df.rows
            /\ df'.dtypes = df.dtypes]_vars

C6_Witness ==
    /\ cleans = 2
    /\ HasCell(df, "nan")
    /\ HasCell(df, "num")
    /\ raw.columns # df.columns

\* C7 as stated: in a cleaned table 'Player', 'Team' and 'Pos' hold the input
\* strings and every other column holds only numbers or the missing marker.
C7_OnlyIdentityColumnsHoldStrings ==
    cleans >= 1 =>
        \A j \in 1..Len(df.columns) : \A r \in 1..Len(df.rows) :
            IF df.columns[j] \in {Player, Team, Pos}
                THEN df.rows[r][j] = raw.rows[r][j] /\ df.rows[r][j].kind = "str"
                ELSE df.rows[r][j].kind \in {"num", "nan"}

\* C8: validate_data returns True exactly when the table has a row and both a
\* 'Player' and a 'Team' column; otherwise it raises, 'DataFrame is empty' for
\* an empty table (checked first) and 'Missing required columns', naming the
\* absent identity columns, for a non-empty one.
C8_ValidationGate ==
    [][(gate = NoGate /\ gate' # NoGate) =>
            LET names == {df.columns[j] : j \in 1..Len(df.columns)}
                isEmpty == Len(df.rows) = 0 \/ Len(df.columns) = 0
                absent == SelectSeq(<<Player, Team>>, LAMBDA c : c \notin names)
            IN  /\ gate'.status = "True" <=>
                      (Len(df.rows) >= 1 /\ Player \in names /\ Team \in names)
                /\ gate'.status # "True" =>
                      /\ gate'.status = "ValueError"
                      /\ IF isEmpty
                            THEN gate'.msg = "DataFrame is empty"
                            ELSE /\ gate'.msg = "Missing required columns"
                                 /\ gate'.missing = absent
                                 /\ absent # <<>>]_vars

\* an empty table that also lacks an identity column reports emptiness
C8_Witness ==
    /\ gate.status = "ValueError"
    /\ gate.msg = "DataFrame is empty"
    /\ Len(df.rows) = 0
    /\ Len(df.columns) >= 1
    /\ \A j \in 1..Len(df.columns) : df.columns[j] # Player

(***************************************************************************)
(* Properties of validate_csv.  The lines of a file are described here     *)
(* from the positions of its newline characters.                           *)
(***************************************************************************)
Newlines(c) == {k \in 1..Len(c) : c[k] = "\n"}

NumLines(c) ==
    Cardinality(Newlines(c)) + (IF c # <<>> /\ c[Len(c)] # "\n" THEN 1 ELSE 0)

\* position of the k-th newline of c
NewlineAt(c, k) ==
    CHOOSE p \in Newlines(c) : Cardinality({q \in Newlines(c) : q <= p}) = k

\* the n-th line of c, 1-indexed, without its newline
LineOf(c, n) ==
    SubSeq(c,
           IF n = 1 THEN 1 ELSE NewlineAt(c, n - 1) + 1,
           IF n <= Cardinality(Newlines(c)) THEN NewlineAt(c, n) - 1 ELSE Len(c))

CellCount(line) ==
    IF line = <<>> THEN 0 ELSE 1 + Cardinality({k \in 1..Len(line) : line[k] = ","})

FileMissing == ~file.exists
FileZeroBytes == file.exists /\ file.content = <<>>
HeaderRowEmpty ==
    file.exists /\ file.readable /\ file.content # <<>> /\ file.content[1] = "\n"
HeaderRead ==
    file.exists /\ file.readable /\ file.content # <<>> /\ file.content[1] # "\n"

IsColumnsError(e) == e.msg = "Row {row} has {actual} columns, expected {expected}"

\* C9: in each fatal case (file missing, file of zero bytes, header row missing
\* or empty) validate_csv returns at once, never entering the row loop, with
\* is_valid false and exactly one error naming the case.
C9_FatalChecksReturnOneError ==
    (FileMissing \/ FileZeroBytes \/ HeaderRowEmpty) =>
        /\ vpc \in {"start", "done"}
        /\ row_num = 0
        /\ errors = <<>>
        /\ ENABLED NextCsv \/ vpc = "done"
        /\ vpc = "done" =>
              /\ report.returned
              /\ ~report.is_valid
              /\ Len(report.errors) = 1
              /\ report.errors[1].msg =
                    IF FileMissing THEN "File does not exist"
                    ELSE IF FileZeroBytes THEN "File is empty"
                    ELSE "CSV file has no header row"

\* an empty header line followed by a data row: nothing of the row is reported
C9_Witness ==
    /\ vpc = "done"
    /\ HeaderRowEmpty
    /\ NumLines(file.content) >= 2
    /\ LineOf(file.content, 2) # <<>>
    /\ report = Report(FALSE, <<Error("CSV file has no header row")>>)

\* C10: every data row whose cell count differs from the header's is reported
\* by exactly one error naming its row number (the first data row is row 2),
\* its cell count and the expected count; rows of the header's cell count are
\* not reported.
C10_RowLengthErrors ==
    (vpc = "done" /\ HeaderRead) =>
        LET c == file.content
            expected == CellCount(LineOf(c, 1))
            reported(n) == {i \in 1..Len(report.errors) :
                               IsColumnsError(report.errors[i]) /\ report.errors[i].row = n}
        IN  /\ \A n \in 2..NumLines(c) :
                  IF CellCount(LineOf(c, n)) # expected
                      THEN /\ Cardinality(reported(n)) = 1
                           /\ \A i \in reported(n) :
                                 /\ report.errors[i].actual = CellCount(LineOf(c, n))
                                 /\ report.errors[i].expected = expected
                      ELSE reported(n) = {}
            /\ \A i \in 1..Len(report.errors) :
                  IsColumnsError(report.errors[i]) =>
                      report.errors[i].row \in 2..NumLines(c)

\* a file whose row 2 has the header's cell count and whose row 3 has not
C10_Witness ==
    /\ vpc = "done"
    /\ HeaderRead
    /\ NumLines(file.content) = 3
    /\ CellCount(LineOf(file.content, 2)) = CellCount(LineOf(file.content, 1))
    /\ CellCount(LineOf(file.content, 3)) = 2
    /\ \E i \in 1..Len(report.errors) : report.errors[i] = ColumnsError(3, 2, 1)
    /\ \A i \in 1..Len(report.errors) : report.errors[i].row # 2

\* the cells of a line, described from the positions of its commas
Commas(line) == {k \in 1..Len(line) : line[k] = ","}

CommaAt(line, k) ==
    CHOOSE p \in Commas(line) : Cardinality({q \in Commas(line) : q <= p}) = k

\* the j-th cell of a non-empty line, 1-indexed
CellOf(line, j) ==
    SubSeq(line,
           IF j = 1 THEN 1 ELSE CommaAt(line, j - 1) + 1,
           IF j <= Cardinality(Commas(line)) THEN CommaAt(line, j) - 1 ELSE Len(line))

\* nothing but whitespace
IsBlank(cell) == \A k \in 1..Len(cell) : cell[k] \in WS

IsEmptyValueError(e) == e.msg = "Empty value found in row {row}, column {col}"

\* C11: every cell of every data row that is empty once surrounding whitespace
\* is stripped is reported by exactly one error naming its row number and its
\* 1-indexed column number; a non-blank cell is reported by no such error.
C11_BlankCellErrors ==
    (vpc = "done" /\ HeaderRead) =>
        LET c == file.content
            reported(n, j) == {i \in 1..Len(report.errors) :
                                  /\ IsEmptyValueError(report.errors[i])
                                  /\ report.errors[i].row = n
                                  /\ report.errors[i].col = j}
        IN  /\ \A n \in 2..NumLines(c) : \A j \in 1..CellCount(LineOf(c, n)) :
                  Cardinality(reported(n, j)) =
                      IF IsBlank(CellOf(LineOf(c, n), j)) THEN 1 ELSE 0
            /\ \A i \in 1..Len(report.errors) :
                  IsEmptyValueError(report.errors[i]) =>
                      /\ report.errors[i].row \in 2..NumLines(c)
                      /\ report.errors[i].col \in
                            1..CellCount(LineOf(c, report.errors[i].row))

\* a data row with a non-blank first cell and a blank second cell
C11_Witness ==
    /\ vpc = "done"
    /\ HeaderRead
    /\ NumLines(file.content) = 2
    /\ LineOf(file.content, 2) = <<"b", ",", " ">>
    /\ \E i \in 1..Len(report.errors) :
          /\ IsEmptyValueError(report.errors[i])
          /\ report.errors[i].row = 2
          /\ report.errors[i].col = 2
    /\ \A i \in 1..Len(report.errors) :
          IsEmptyValueError(report.errors[i]) => report.errors[i].col # 1

IsDuplicateError(e) == e.msg = "CSV contains duplicate column headers"

\* two cells of the header line hold the same name
HeaderRepeatsName(c) ==
    \E j \in 1..CellCount(LineOf(c, 1)) : \E k \in 1..CellCount(LineOf(c, 1)) :
        j < k /\ CellOf(LineOf(c, 1), j) = CellOf(LineOf(c, 1), k)

WrongLengthRows(c) ==
    {n \in 2..NumLines(c) : CellCount(LineOf(c, n)) # CellCount(LineOf(c, 1))}

BlankCells(c) ==
    {p \in (2..NumLines(c)) \X (1..Len(c)) :
        /\ p[2] <= CellCount(LineOf(c, p[1]))
        /\ IsBlank(CellOf(LineOf(c, p[1]), p[2]))}

C13_ValidExactlyForExistingNonEmptyFile ==
    vpc = "done" =>
        /\ report.is_valid <=> report.errors = <<>>
        /\ report = Report(TRUE, <<>>) <=>
              /\ file.exists
              /\ file.content # <<>>
              /\ ~HeaderRepeatsName(file.content)
              /\ WrongLengthRows(file.content) = {}
              /\ BlankCells(file.content) = {}

\* C13, amended: is_valid is true exactly when the returned list is empty, and
\* (true, []) is returned exactly for an existing, non-empty file that can be
\* read, whose first line is a non-empty header with no repeated name, whose
\* data rows all have the header's cell count and whose data rows hold no
\* blank cell.
C13_ValidIffWellFormed ==
    vpc = "done" =>
        /\ report.is_valid <=> report.errors = <<>>
        /\ report = Report(TRUE, <<>>) <=>
              /\ HeaderRead
              /\ ~HeaderRepeatsName(file.content)
              /\ WrongLengthRows(file.content) = {}
              /\ BlankCells(file.content) = {}

\* a header and two data rows, all accepted
C13_Witness ==
    /\ vpc = "done"
    /\ report = Report(TRUE, <<>>)
    /\ NumLines(file.content) = 3
    /\ CellCount(LineOf(file.content, 1)) = 1

(***************************************************************************)
(* Properties of the converter.                                            *)
(***************************************************************************)
\* the reader chosen by the suffix accepts the content
Readable(path, content) ==
    \/ path.ext = "csv" /\ content.kind = "csv" /\ content.header # <<>>
    \/ path.ext = "json" /\ content.kind = "json"

LoopOver == cpc = "loop" /\ ci > Len(source_files)

\* C14: in a batch over a non-empty enumerated list, every enumerated file not
\* already in the target format contributes exactly one message, to 'success'
\* if its conversion succeeded and to 'errors' if it failed; a file already in
\* the target format contributes none; and a failing file does not keep the
\* files after it from being converted.
C14_OneMessagePerFile ==
    (LoopOver /\ source_files # <<>>) =>
        LET todo == {i \in 1..Len(source_files) : source_files[i].ext # conv_format}
            good == {i \in todo : Readable(source_files[i], before[source_files[i]])}
            about(list, path) == {k \in 1..Len(list) : list[k].source = path}
        IN  /\ \A i \in 1..Len(source_files) :
                  /\ Cardinality(about(results.success, source_files[i])) =
                        IF i \in good THEN 1 ELSE 0
                  /\ Cardinality(about(results.errors, source_files[i])) =
                        IF i \in todo \ good THEN 1 ELSE 0
            /\ Len(results.success) = Cardinality(good)
            /\ Len(results.errors) = Cardinality(todo \ good)
            /\ \A k \in 1..Len(results.success) :
                  /\ results.success[k].msg = "Successfully converted"
                  /\ results.success[k].target \in DOMAIN disk
                  /\ disk[results.success[k].target].kind = conv_format
            /\ \A k \in 1..Len(results.errors) :
                  results.errors[k].msg = "Error converting"

\* an unreadable file came first, a file in the target format second, and the
\* readable file after them was still converted
C14_Witness ==
    /\ LoopOver
    /\ Len(source_files) = 3
    /\ ~Readable(source_files[1], before[source_files[1]])
    /\ source_files[2].ext = conv_format
    /\ Len(results.errors) = 1
    /\ results.errors[1].source = source_files[1]
    /\ Len(results.success) = 1
    /\ results.success[1].source = source_files[3]

\* C15 as stated: a conversion never changes a persisted file in place; within
\* any convert_files call every written file is a new file under the
\* target-format subtree, and every file that existed when the call began
\* still holds what it held.
C15_NeverOverwritesExistingFile ==
    cpc = "loop" =>
        /\ \A path \in DOMAIN before :
              path \in DOMAIN disk /\ disk[path] = before[path]
        /\ \A k \in 1..Len(results.success) :
              /\ results.success[k].target \notin DOMAIN before
              /\ results.success[k].target.dirs[1] = conv_format

\* the value a cell text stands for: missing, a number, or the string itself
TextValue(t) ==
    IF t = <<>> THEN NaN
    ELSE IF to_numeric(t).kind = "num" THEN to_numeric(t)
    ELSE Str(t)

\* the same column names in the same order and the same values in every row
SameTable(a, b) ==
    /\ a.kind = "csv"
    /\ b.kind = "csv"
    /\ a.header = b.header
    /\ Len(a.rows) = Len(b.rows)
    /\ \A r \in 1..Len(a.rows) :
          /\ Len(a.rows[r]) = Len(b.rows[r])
          /\ \A j \in 1..Len(a.rows[r]) :
                TextValue(a.rows[r][j]) = TextValue(b.rows[r][j])

\* the CSV file was converted to JSON by a first call and that JSON file was
\* converted back to CSV by a second call
RoundTripDone ==
    /\ cpc = "returned"
    /\ Len(history) = 2
    /\ history[1].target_format = "json"
    /\ P_qb_csv \in history[1].converted
    /\ history[2].target_format = "csv"
    /\ P_qb_json \in history[2].converted

\* C16 as stated: after the round trip CSV -> JSON -> CSV the table has the
\* column names of the original, in the same order, and the same values in
\* every row (numbers compared by value, missing values still missing).
C16_RoundTripSameTable ==
    RoundTripDone => SameTable(disk0[P_qb_csv], disk[P_qb_csv])

(***************************************************************************)
(* Properties of fetch_stats.                                              *)
(***************************************************************************)
\* the same letters, upper or lower case
SameIgnoringCase(a, b) ==
    /\ Len(a) = Len(b)
    /\ \A i \in 1..Len(a) :
          \/ a[i] = b[i]
          \/ \E k \in 1..26 : {a[i], b[i]} = {UpperChars[k], LowerChars[k]}

BadYear == f_year < 2013 \/ f_year > 2024

BadPosition == \A p \in {T_qb, T_rb, T_wr, T_te} : ~SameIgnoringCase(f_position, p)

\* C17: for a year outside 2013..2024 or a position outside {qb, rb, wr, te}
\* (compared without regard to case) fetch_stats raises an error having made
\* no GET request and no sleep; for a year inside the interval and a valid
\* position it never raises that error.
C17_InputChecksBeforeNetwork ==
    fpc # "idle" =>
        IF BadYear \/ BadPosition
            THEN /\ trace = <<>>
                 /\ fpc \in {"start", "done"}
                 /\ fpc = "done" => fetched.status = "ValueError"
            ELSE fetched.status # "ValueError"

\* 'QB' is a valid position, and 2012 is rejected before any request
C17_Witness ==
    /\ fpc = "done"
    /\ f_position = <<"Q", "B">>
    /\ f_year = 2012
    /\ fetched.status = "ValueError"
    /\ trace = <<>>

\* the outcomes of the GET requests made, in order
Attempts == SelectSeq(trace, LAMBDA e : e.ev = "get")

FetchOutcome ==
    /\ fpc = "done"
    /\ fetched.status \in {"text", "None"}
    /\ Len(Attempts) <= max_retries
    /\ \A i \in 1..(Len(Attempts) - 1) : ~Attempts[i].ok
    /\ fetched.status = "text" <=> (Attempts # <<>> /\ Attempts[Len(Attempts)].ok)
    /\ fetched.status = "None" <=>
          (Len(Attempts) = max_retries /\ \A i \in 1..Len(Attempts) : ~Attempts[i].ok)

\* C18: for valid arguments fetch_stats terminates, having made at most
\* max_retries GET attempts; it returns the response text at the first
\* attempt that succeeds, with no attempt after it, and it returns None
\* exactly when max_retries attempts were made and all of them failed.
C18_BoundedRetries == (fpc = "loop") ~> FetchOutcome

\* two failures, then the text of the third attempt
C18_Witness ==
    /\ FetchOutcome
    /\ max_retries = 3
    /\ Len(Attempts) = 3
    /\ Attempts[3].ok
    /\ fetched.status = "text"

\* number of failed requests among the first i events of the trace
FailuresUpTo(i) == Cardinality({k \in 1..i : trace[k].ev = "get" /\ ~trace[k].ok})

\* C19: after the k-th failed attempt the call sleeps 2^k + 1 seconds when an
\* attempt is left, so the delays before retries strictly increase; there is
\* a delay between every two consecutive attempts and none after the last
\* failed attempt; a successful request is followed by a sleep of 2 seconds,
\* after which the call returns.
C19_BackoffDelays ==
    /\ \A i \in 1..Len(trace) :
          /\ (trace[i].ev = "get" /\ ~trace[i].ok /\ FailuresUpTo(i) < max_retries) =>
                /\ i < Len(trace)
                /\ trace[i + 1] = [ev |-> "sleep", ok |-> TRUE,
                                   secs |-> 2 ^ FailuresUpTo(i) + 1]
          /\ (trace[i].ev = "get" /\ ~trace[i].ok /\ FailuresUpTo(i) >= max_retries) =>
                i = Len(trace)
          /\ (trace[i].ev = "get" /\ trace[i].ok) =>
                /\ i + 1 = Len(trace)
                /\ trace[i + 1] = [ev |-> "sleep", ok |-> TRUE, secs |-> 2]
          /\ trace[i].ev = "sleep" => (i > 1 /\ trace[i - 1].ev = "get")
    /\ \A i \in 1..Len(trace) : \A k \in (i + 1)..Len(trace) :
          (/\ trace[i].ev = "sleep" /\ ~trace[i - 1].ok
           /\ trace[k].ev = "sleep" /\ ~trace[k - 1].ok) =>
              trace[i].secs < trace[k].secs
    /\ (fpc = "done" /\ fetched.status = "text") =>
          (trace # <<>> /\ trace[Len(trace)].ev = "sleep" /\ trace[Len(trace)].secs = 2)

\* three failed attempts: 3 seconds, then 5 seconds, and no sleep at the end
C19_Witness ==
    /\ fpc = "done"
    /\ max_retries = 3
    /\ fetched.status = "None"
    /\ Len(trace) = 5
    /\ trace[2].secs = 3
    /\ trace[4].secs = 5
    /\ trace[5].ev = "get"

(***************************************************************************)
(* Properties of scrape_and_save_all.                                      *)
(***************************************************************************)
\* the fetch returned a page and extraction, normalisation and the
\* validation gate succeeded
GatePassed(e) ==
    /\ e.fetched.status = "text"
    /\ ~e.fetched.text.empty
    /\ extract_table_data(e.fetched.text.doc).status = "ok"
    /\ parse_table(extract_table_data(e.fetched.text.doc)).status = "ok"
    /\ validate_data(parse_table(extract_table_data(e.fetched.text.doc)).df).status = "True"

\* ... and so did the save
AllStagesSucceeded(e) == GatePassed(e) /\ ~e.save_raised

\* C20: the positions are processed one at a time in the given order; a
\* failed fetch or an error of extraction, normalisation, the validation gate
\* or the save of one position does not keep a later position from being
\* processed; the returned mapping holds a position exactly when all of its
\* stages succeeded, mapped to the path of its saved file, and no file is
\* saved for a position whose gate did not pass.
C20_BatchIsolatesFailures ==
    /\ Len(log) <= Len(positions)
    /\ \A i \in 1..Len(log) : log[i].position = positions[i]
    /\ bpc = "returned" =>
          /\ Len(log) = Len(positions)
          /\ \A i \in 1..Len(positions) :
                positions[i] \in DOMAIN filepaths <=>
                    \E k \in 1..Len(log) :
                        log[k].position = positions[i] /\ AllStagesSucceeded(log[k])
          /\ \A p \in DOMAIN filepaths :
                /\ \E i \in 1..Len(positions) : positions[i] = p
                /\ filepaths[p] =
                      [dirs |-> <<output_format, ToString(season)>>,
                       stem |-> p \o <<"_", "s", "t", "a", "t", "s">>,
                       ext |-> output_format]
                /\ filepaths[p] \in DOMAIN disk
    /\ \A path \in DOMAIN disk :
          \E k \in 1..Len(log) :
              /\ GatePassed(log[k])
              /\ path = [dirs |-> <<output_format, ToString(season)>>,
                         stem |-> log[k].position \o <<"_", "s", "t", "a", "t", "s">>,
                         ext |-> output_format]

\* the first position fails at the validation gate (a table without rows),
\* the second is saved
C20_Witness ==
    /\ bpc = "returned"
    /\ Len(positions) = 2
    /\ log[1].fetched.status = "text"
    /\ log[1].fetched.text.doc = NoRowsPage
    /\ positions[1] \notin DOMAIN filepaths
    /\ positions[2] \in DOMAIN filepaths

(***************************************************************************)
(* Properties of NFLStatsWriter.save_to_csv.                               *)
(***************************************************************************)
\* C22: after any sequence of save_to_csv calls, each of which returns or
\* raises, the writer's output_format equals the value it had at
\* construction.
C22_OutputFormatUnchanged ==
    (\A k \in 1..Len(calls) : calls[k].method = "save_to_csv")
        => self_output_format = constructed

(***************************************************************************)
(* Properties of main in scraping mode.                                    *)
(***************************************************************************)
\* some position of the run failed to be fetched, extracted, normalised,
\* validated or saved
SomePositionFailed == \E k \in 1..Len(log) : ~AllStagesSucceeded(log[k])

\* C21: a run in which at least one of the four positions failed to be
\* fetched, extracted, normalised or saved never ends with exit status 0.
C21_NoSuccessAfterPartialFailure ==
    (mpc = "exited" /\ SomePositionFailed) => exit_status # 0

(***************************************************************************)
(* Properties of the pipeline from the normaliser to validate_csv.         *)
(***************************************************************************)
\* the cell is a missing marker, or an empty string in the Player or the Team
\* column
MissingOrEmptyIdentity(r, j) ==
    \/ df.rows[r][j].kind = "nan"
    \/ /\ df.columns[j] \in {Player, Team}
       /\ df.rows[r][j] = Str(<<>>)

\* the file row r + 1 (the header is row 1), column j is reported empty
ReportedEmpty(r, j) ==
    /\ ~report.is_valid
    /\ \E k \in 1..Len(report.errors) : report.errors[k] = EmptyValueError(r + 1, j)

MissingCellsAreReported ==
    \A r \in 1..Len(df.rows) : \A j \in 1..Len(df.columns) :
        MissingOrEmptyIdentity(r, j) => ReportedEmpty(r, j)

NoMissingMarker ==
    \A r \in 1..Len(df.rows) : \A j \in 1..Len(df.columns) : df.rows[r][j].kind # "nan"

UniqueColumnNames ==
    \A i \in 1..Len(df.columns) : \A j \in 1..Len(df.columns) :
        df.columns[i] = df.columns[j] => i = j

NoEmptyIdentityString ==
    \A r \in 1..Len(df.rows) : \A j \in 1..Len(df.columns) :
        df.columns[j] \in IdentityColumns => df.rows[r][j] # Str(<<>>)

NoBlankIdentityString ==
    \A r \in 1..Len(df.rows) : \A j \in 1..Len(df.columns) :
        df.columns[j] \in IdentityColumns =>
            ~(df.rows[r][j].kind = "str" /\ Strip(df.rows[r][j].s) = <<>>)

\* C23 as stated: the CSV written for a table that passed the gate is
\* reported invalid with an empty-value error at the row and column of every
\* missing marker and of every empty player or team string; and a table with
\* no missing marker, no empty identity string and unique column names is
\* reported valid.
C23_PipelineConsistent ==
    report.returned =>
        /\ MissingCellsAreReported
        /\ (NoMissingMarker /\ NoEmptyIdentityString /\ UniqueColumnNames)
              => report.is_valid

\* C23 amended: the same, the converse for tables whose identity strings are
\* not blank (neither empty nor made of whitespace only).
C23_PipelineConsistentNoBlank ==
    report.returned =>
        /\ MissingCellsAreReported
        /\ (NoMissingMarker /\ NoBlankIdentityString /\ UniqueColumnNames)
              => report.is_valid

\* a table with a missing marker in its first row and an empty team in its
\* second was saved and validated, and both cells are reported
C23_Witness ==
    /\ report.returned
    /\ Len(df.rows) = 2
    /\ \E j \in 1..Len(df.columns) :
          df.rows[1][j].kind = "nan" /\ ReportedEmpty(1, j)
    /\ \E j \in 1..Len(df.columns) :
          df.columns[j] = Team /\ df.rows[2][j] = Str(<<>>) /\ ReportedEmpty(2, j)

====
